---- MODULE Spec2Model ----
(***************************************************************************)
(* Temporal-intelligence core of vibe-memory-rag                           *)
(* (apps/mcp-server/vibe-memory-rag/src/temporal_intelligence.py).         *)
(*                                                                         *)
(* Number representation.  The code computes with Python floats; the model *)
(* computes the same quantities exactly, in integers:                      *)
(*   - time is counted in ticks, TicksPerHour ticks to the hour, so that   *)
(*     age_hours = (current_time - timestamp) / 3600 is AgeTicks /         *)
(*     TicksPerHour;                                                       *)
(*   - a semantic or temporal score s is the integer s * ScoreScale;       *)
(*   - a confidence handed to route_query / adaptive_temporal_scoring is   *)
(*     the integer c * ConfScale;                                          *)
(*   - the confidence computed by analyze_intent is the exact fraction     *)
(*     num / den.                                                          *)
(***************************************************************************)
EXTENDS Integers, Sequences, FiniteSets, TLC

VARIABLES pc, args, ret, profile, embedding, tabs

vars == <<pc, args, ret, profile, embedding, tabs>>

\* the module-level state of utils.py when the process starts: the
\* embedding cache (its keys in insertion order) and the hit and miss
\* counters are empty; upstream is the list of requests the embedding
\* service has received
NoEmbedding == [cache |-> <<>>, hits |-> 0, misses |-> 0, upstream |-> <<>>]

\* the stores of main.py when the server starts: mem0 and synopses are the
\* memory ids with a memory and with a synopsis update in the memory store,
\* chunks the (memory_id, chunk_number) pairs of the content store,
\* background the tasks created and not yet run, saved the ids
\* add_browser_memory has returned, deleted the ids delete_tab_memory has
\* returned its success message for
NoTabs == [mem0 |-> {}, synopses |-> {}, chunks |-> {}, background |-> <<>>,
           saved |-> {}, deleted |-> {}]

(***************************************************************************)
(* Bounds of the model and units.                                          *)
(***************************************************************************)
MaxLen == 3

CurrentTime == 4000

TicksPerHour == 4

ScoreScale == 10000

ConfScale == 1000

(***************************************************************************)
(* Generic helpers.                                                        *)
(***************************************************************************)
Max(a, b) == IF b > a THEN b ELSE a

Min(a, b) == IF b < a THEN b ELSE a

RECURSIVE SumSeq(_)
SumSeq(s) == IF s = <<>> THEN 0 ELSE Head(s) + SumSeq(Tail(s))

RECURSIVE SumSq(_)
SumSq(s) == IF s = <<>> THEN 0 ELSE Head(s) * Head(s) + SumSq(Tail(s))

CountIf(s, P(_)) == Cardinality({i \in 1..Len(s) : P(s[i])})

\* Insert x into the ascending sequence s, after every element <= x.
RECURSIVE InsertAsc(_, _)
InsertAsc(s, x) ==
    IF s = <<>> THEN <<x>>
    ELSE IF Head(s) <= x THEN <<Head(s)>> \o InsertAsc(Tail(s), x)
    ELSE <<x>> \o s

RECURSIVE SortAsc(_)
SortAsc(s) == IF s = <<>> THEN <<>> ELSE InsertAsc(SortAsc(SubSeq(s, 1, Len(s) - 1)), s[Len(s)])

\* list.sort(key=..., reverse=True) on a list of [key, item] pairs: descending
\* by key, items with equal keys keep their order (the sort is stable).
RECURSIVE InsertDescMutUnstable(_, _)
InsertDescMutUnstable(s, x) ==
    IF s = <<>> THEN <<x>>
    ELSE IF Head(s).key > x.key THEN <<Head(s)>> \o InsertDescMutUnstable(Tail(s), x)
    ELSE <<x>> \o s

RECURSIVE InsertDesc(_, _)
InsertDesc(s, x) ==
    IF s = <<>> THEN <<x>>
    ELSE IF Head(s).key >= x.key THEN <<Head(s)>> \o InsertDesc(Tail(s), x)
    ELSE <<x>> \o s

SortDescMutKeepOrder(s) == s

RECURSIVE SortDesc(_)
SortDesc(s) == IF s = <<>> THEN <<>> ELSE InsertDesc(SortDesc(SubSeq(s, 1, Len(s) - 1)), s[Len(s)])

Items(s) == [i \in 1..Len(s) |-> s[i].item]

(***************************************************************************)
(* Memory records.  created_at is one of                                   *)
(*   absent : the key is missing (memory.get gives "")                     *)
(*   iso    : an ISO-8601 string naming the instant t                      *)
(*   badstr : a non-empty string that datetime.fromisoformat rejects       *)
(*   num    : a number, the epoch t                                        *)
(*   huge   : an integer too large for float (float raises OverflowError)  *)
(* mapping = FALSE is a record that is not a dict (memory.get raises).     *)
(***************************************************************************)
Rec(id, mapping, k, t, hasScore, score) ==
    [id |-> id, mapping |-> mapping, created_at |-> [k |-> k, t |-> t],
     hasScore |-> hasScore, score |-> score]

Memories ==
    { Rec("m1", TRUE, "iso",    CurrentTime - 1,    TRUE,  2000),
      Rec("m2", TRUE, "num",    CurrentTime - 3,    TRUE,  5000),
      Rec("m3", TRUE, "iso",    CurrentTime - 40,   TRUE,  5000),
      Rec("m4", TRUE, "num",    CurrentTime - 800,  FALSE, 0),
      Rec("m5", TRUE, "iso",    CurrentTime - 2220, TRUE,  9000),
      Rec("m6", TRUE, "absent", 0,                  TRUE,  5000),
      Rec("m7", TRUE, "badstr", 0,                  TRUE,  5000),
      Rec("g8", FALSE, "absent", 0,                 FALSE, 0) }

\* Every list of at most MaxLen distinct records.
RECURSIVE ListsUpTo(_)
ListsUpTo(n) ==
    IF n = 0 THEN {<<>>}
    ELSE LET shorter == ListsUpTo(n - 1)
         IN  shorter \cup {Append(s, m) : s \in {x \in shorter : Len(x) = n - 1},
                                          m \in Memories}

Collections == {s \in ListsUpTo(MaxLen) : \A i, j \in 1..Len(s) : i # j => s[i].id # s[j].id}

NoTimestamp == -1

\* The timestamp parsed from created_at, or NoTimestamp: the
\* "if created_at: try: fromisoformat / float except: continue" block.
ParseCreatedAt(memory) ==
    LET c == memory.created_at
    IN  CASE c.k = "absent" -> NoTimestamp
          [] c.k = "iso"    -> c.t
          [] c.k = "badstr" -> NoTimestamp
          [] c.k = "num"    -> IF c.t = 0 THEN NoTimestamp ELSE c.t
          [] c.k = "huge"   -> NoTimestamp

\* age in ticks: age_hours = AgeTicks / TicksPerHour
AgeTicks(timestamp) == CurrentTime - timestamp

\* the ages list built by the loop over the collection
RECURSIVE CollectAges(_)
CollectAges(coll) ==
    IF coll = <<>> THEN <<>>
    ELSE LET ts == ParseCreatedAt(Head(coll))
         IN  (IF ts = NoTimestamp THEN <<>> ELSE <<AgeTicks(ts)>>) \o CollectAges(Tail(coll))

\* memory.get raises AttributeError on a record that is not a mapping
RaisesOnGet(coll) == \E i \in 1..Len(coll) : ~coll[i].mapping

(***************************************************************************)
(* build_temporal_profile.  Thresholds are kept in quarter ticks (the      *)
(* linear interpolation of np.percentile at q = 25 and q = 75 has          *)
(* denominator 4), the standard deviation in tenths of a tick, the mean as *)
(* the fraction mean_num / mean_den ticks and the distribution as counts   *)
(* over total.                                                             *)
(***************************************************************************)
RECURSIVE ISqrtIn(_, _, _)
ISqrtIn(lo, hi, v) ==
    IF lo >= hi THEN lo
    ELSE LET mid == (lo + hi + 1) \div 2
         IN  IF mid * mid <= v THEN ISqrtIn(mid, hi, v) ELSE ISqrtIn(lo, mid - 1, v)

\* floor of the square root
ISqrt(v) == ISqrtIn(0, Min(v, 46340), v)

\* n * n * np.var(ages)
VarTimesN2(ages) == Len(ages) * SumSq(ages) - SumSeq(ages) * SumSeq(ages)

\* np.std(ages), in tenths of a tick
StdTenths(ages) == (ISqrt(VarTimesN2(ages)) * 10) \div Len(ages)

\* 4 * np.percentile(ages, q) for q = 25 * k, by linear interpolation
PercentileX4(ages, k) ==
    LET a   == SortAsc(ages)
        pos == k * (Len(a) - 1)
        i   == pos \div 4
        r   == pos % 4
    IN  IF r = 0 THEN 4 * a[i + 1]
        ELSE 4 * a[i + 1] + r * (a[i + 2] - a[i + 1])

\* the profile returned when no age could be collected
DefaultProfile ==
    [mean_num |-> 24 * TicksPerHour, mean_den |-> 1,
     std_tenths |-> 12 * TicksPerHour * 10,
     recent_x4 |-> 1 * TicksPerHour * 4,
     old_x4 |-> 168 * TicksPerHour * 4,
     recent |-> 0, medium |-> 0, old |-> 1, total |-> 1]

\* the profile returned by the except branch
FallbackProfile ==
    [mean_num |-> 24 * TicksPerHour, mean_den |-> 1,
     std_tenths |-> 12 * TicksPerHour * 10,
     recent_x4 |-> 1 * TicksPerHour * 4,
     old_x4 |-> 168 * TicksPerHour * 4,
     recent |-> 3, medium |-> 4, old |-> 3, total |-> 10]

\* the profile computed from a non-empty ages list
ComputedProfile(ages) ==
    LET recent_threshold == Max(1 * TicksPerHour * 4, PercentileX4(ages, 1))
        old_threshold    == Min(168 * TicksPerHour * 4, PercentileX4(ages, 3))
    IN  [mean_num |-> SumSeq(ages), mean_den |-> Len(ages),
         std_tenths |-> StdTenths(ages),
         recent_x4 |-> recent_threshold,
         old_x4 |-> old_threshold,
         recent |-> CountIf(ages, LAMBDA a : 4 * a <= recent_threshold),
         medium |-> CountIf(ages, LAMBDA a : 4 * a > recent_threshold /\ 4 * a <= old_threshold),
         old    |-> CountIf(ages, LAMBDA a : 4 * a > old_threshold),
         total  |-> Len(ages)]

\* self._profile = None
NoProfile ==
    [mean_num |-> 0, mean_den |-> 0, std_tenths |-> 0, recent_x4 |-> 0, old_x4 |-> 0,
     recent |-> 0, medium |-> 0, old |-> 0, total |-> 0]

\* build_temporal_profile: the profile returned and the value of
\* self._profile after the call, given its value before
BuildProfileResult(coll, stored) ==
    IF RaisesOnGet(coll) THEN [profile |-> FallbackProfile, stored |-> stored]
    ELSE LET ages == CollectAges(coll)
         IN  IF ages = <<>> THEN [profile |-> DefaultProfile, stored |-> stored]
             ELSE [profile |-> ComputedProfile(ages), stored |-> ComputedProfile(ages)]

(***************************************************************************)
(* Calls.  pc = "call": the arguments in args are about to be passed;      *)
(* pc = "done": ret holds what the call returned.  profile is              *)
(* self._profile of the TemporalIntelligence instance.                     *)
(***************************************************************************)
NoRet == [op |-> "none"]

\* ---- build_temporal_profile on every collection ----
InitProfile ==
    /\ pc = "call"
    /\ \E coll \in Collections :
          args = [op |-> "build_temporal_profile", memory_collection |-> coll]
    /\ ret = NoRet
    /\ profile = NoProfile
    /\ embedding = NoEmbedding /\ tabs = NoTabs

BuildTemporalProfile ==
    /\ pc = "call"
    /\ args.op = "build_temporal_profile"
    /\ LET r == BuildProfileResult(args.memory_collection, profile)
       IN  /\ ret' = [op |-> args.op, raised |-> FALSE, profile |-> r.profile]
           /\ profile' = r.stored
    /\ pc' = "done"
    /\ UNCHANGED <<args, embedding, tabs>>

NextProfile == BuildTemporalProfile

SpecProfile == InitProfile /\ [][NextProfile]_vars

ProfileDone == pc = "done" /\ args.op = "build_temporal_profile"

\* C5: whenever at least one age is collected, the recent, medium and old
\* fractions of the returned profile sum to 1 (every collected age is
\* counted in exactly one bucket).
C5_FractionsSumToOne ==
    (ProfileDone /\ CollectAges(args.memory_collection) # <<>>)
        => ret.profile.recent + ret.profile.medium + ret.profile.old = ret.profile.total

\* C6: whenever zero ages are collected (empty list, no parseable
\* created_at, records that are not mappings), build_temporal_profile does
\* not raise and returns the fixed default profile with distribution
\* {recent: 0, medium: 0, old: 1}.
C6_DefaultProfileOnNoAges ==
    (ProfileDone /\ CollectAges(args.memory_collection) = <<>>)
        => (~ret.raised /\ ret.profile = DefaultProfile)

(***************************************************************************)
(* route_query.  A confidence is [ok |-> TRUE, v |-> c * ConfScale], or    *)
(* ok = FALSE for a value that can be neither compared with nor multiplied *)
(* by a float (None, a string): the comparison and the product then raise  *)
(* TypeError.  temporal_weight is kept in units of 1 / (2 * ConfScale).    *)
(***************************************************************************)
Intents == {"temporal_primary", "temporal_secondary", "semantic_only"}

NoFilter == -1

Conf(v) == [ok |-> TRUE, v |-> v]

BadConf == [ok |-> FALSE, v |-> 0]

SemanticOnlyRoute ==
    [strategy |-> "semantic_only", params |-> [limit |-> 5, use_reranking |-> TRUE]]

\* an exception is raised inside the try block of route_query
RouteRaisesInside(intent, confidence) ==
    \/ intent = "temporal_primary" /\ ~confidence.ok
    \/ intent = "temporal_secondary" /\ ~confidence.ok

\* the except branch of route_query
RouteQueryMutRaise(intent, confidence) ==
    [raised |-> TRUE, strategy |-> "none", params |-> [limit |-> 0]]

RouteQueryExcept(intent, confidence) ==
    [raised |-> FALSE] @@ SemanticOnlyRoute

\* the branches of the try block, for a confidence that does not raise
RouteQueryMutGe(intent, confidence) ==
    IF intent = "temporal_primary" /\ 10 * confidence.v >= 8 * ConfScale THEN
        [strategy |-> "timestamp_direct",
         params |-> [limit |-> 5, time_filter_hours |-> NoFilter]]
    ELSE IF intent = "temporal_primary" THEN
        [strategy |-> "semantic_temporal_hybrid",
         params |-> [semantic_limit_multiplier |-> 3,
                     temporal_weight |-> 2 * confidence.v,
                     use_fresh_memory_boost |-> TRUE]]
    ELSE IF intent = "temporal_secondary" THEN
        [strategy |-> "semantic_temporal_hybrid",
         params |-> [semantic_limit_multiplier |-> 2,
                     temporal_weight |-> confidence.v,
                     use_fresh_memory_boost |-> FALSE]]
    ELSE SemanticOnlyRoute

RouteQueryTry(intent, confidence) ==
    IF intent = "temporal_primary" /\ 10 * confidence.v > 8 * ConfScale THEN
        [strategy |-> "timestamp_direct",
         params |-> [limit |-> 5, time_filter_hours |-> NoFilter]]
    ELSE IF intent = "temporal_primary" THEN
        [strategy |-> "semantic_temporal_hybrid",
         params |-> [semantic_limit_multiplier |-> 3,
                     temporal_weight |-> 2 * confidence.v,
                     use_fresh_memory_boost |-> TRUE]]
    ELSE IF intent = "temporal_secondary" THEN
        [strategy |-> "semantic_temporal_hybrid",
         params |-> [semantic_limit_multiplier |-> 2,
                     temporal_weight |-> confidence.v,
                     use_fresh_memory_boost |-> FALSE]]
    ELSE SemanticOnlyRoute

\* route_query(query, memory_collection, intent, confidence)
RouteQueryResult(query, memory_collection, intent, confidence) ==
    IF RouteRaisesInside(intent, confidence) THEN RouteQueryExcept(intent, confidence)
    ELSE [raised |-> FALSE] @@ RouteQueryTry(intent, confidence)

RouteQueries == {"show me latest", "tell me about quantum computing"}

RouteCollections == {c \in Collections : Len(c) <= 1 /\ \A i \in 1..Len(c) : c[i].id \in {"m1", "g8"}}

InitRoute ==
    /\ pc = "call"
    /\ \E q \in RouteQueries, coll \in RouteCollections, intent \in Intents,
          c \in {Conf(v) : v \in 0..ConfScale} \cup {BadConf} :
          args = [op |-> "route_query", query |-> q, memory_collection |-> coll,
                  intent |-> intent, confidence |-> c]
    /\ ret = NoRet
    /\ profile = NoProfile
    /\ embedding = NoEmbedding /\ tabs = NoTabs

RouteQuery ==
    /\ pc = "call"
    /\ args.op = "route_query"
    /\ ret' = [op |-> args.op] @@
              RouteQueryResult(args.query, args.memory_collection, args.intent, args.confidence)
    /\ pc' = "done"
    /\ UNCHANGED <<args, profile, embedding, tabs>>

NextRoute == RouteQuery

SpecRoute == InitRoute /\ [][NextRoute]_vars

RouteDone == pc = "done" /\ args.op = "route_query"

\* C3: for every intent and every numeric confidence, route_query returns
\* the row of the decision table selected by (intent, confidence) alone:
\* PRIMARY and confidence > 0.8: timestamp_direct, limit 5, no time filter;
\* PRIMARY and confidence <= 0.8: hybrid, multiplier 3, weight = confidence,
\* fresh boost on; SECONDARY: hybrid, multiplier 2, weight = confidence / 2,
\* fresh boost off; SEMANTIC_ONLY: semantic_only, limit 5, reranking on.
C3_DecisionTable ==
    (RouteDone /\ args.confidence.ok) =>
        LET c == args.confidence.v
        IN  /\ ~ret.raised
            /\ (args.intent = "temporal_primary" /\ c * 10 > ConfScale * 8) =>
                   /\ ret.strategy = "timestamp_direct"
                   /\ ret.params = [limit |-> 5, time_filter_hours |-> NoFilter]
            /\ (args.intent = "temporal_primary" /\ c * 10 <= ConfScale * 8) =>
                   /\ ret.strategy = "semantic_temporal_hybrid"
                   /\ ret.params = [semantic_limit_multiplier |-> 3,
                                    temporal_weight |-> c + c,
                                    use_fresh_memory_boost |-> TRUE]
            /\ args.intent = "temporal_secondary" =>
                   /\ ret.strategy = "semantic_temporal_hybrid"
                   /\ ret.params = [semantic_limit_multiplier |-> 2,
                                    temporal_weight |-> c,
                                    use_fresh_memory_boost |-> FALSE]
            /\ args.intent = "semantic_only" =>
                   /\ ret.strategy = "semantic_only"
                   /\ ret.params = [limit |-> 5, use_reranking |-> TRUE]

\* a PRIMARY query routed at confidence exactly 0.8 (the hybrid side of the
\* boundary)
C3_Witness ==
    /\ RouteDone
    /\ args.intent = "temporal_primary"
    /\ args.confidence.ok
    /\ args.confidence.v * 10 = ConfScale * 8
    /\ ret.strategy = "semantic_temporal_hybrid"

\* C4: when an exception occurs inside route_query, nothing is raised and
\* the result is exactly ("semantic_only", {limit: 5, use_reranking: true}).
C4_RouterFallback ==
    (RouteDone /\ ~args.confidence.ok /\ args.intent # "semantic_only") =>
        /\ ~ret.raised
        /\ ret.strategy = "semantic_only"
        /\ ret.params = [limit |-> 5, use_reranking |-> TRUE]

\* a PRIMARY query routed with a confidence that cannot be compared
C4_Witness ==
    /\ RouteDone
    /\ args.intent = "temporal_primary"
    /\ ~args.confidence.ok
    /\ ret.strategy = "semantic_only"

(***************************************************************************)
(* get_memories_by_timestamp.  time_filter_hours is NoFilter (None) or a   *)
(* number of hours; a returned record is the input record with the field   *)
(* age_hours added (in ticks).                                             *)
(***************************************************************************)
MaxLimit == 3

TimeFilters == {NoFilter, 0, 1, 24, 300}

\* the loop: the copies appended to timestamped_memories, with their
\* sort_timestamp as key
RECURSIVE TimestampedMutNoFilter(_, _)
TimestampedMutNoFilter(coll, H) ==
    IF coll = <<>> THEN <<>>
    ELSE LET memory == Head(coll)
             ts     == ParseCreatedAt(memory)
             rest   == TimestampedMutNoFilter(Tail(coll), H)
         IN  IF ts = NoTimestamp THEN rest
             ELSE <<[key |-> ts, item |-> memory @@ [age_hours |-> AgeTicks(ts)]]>> \o rest

RECURSIVE Timestamped(_, _)
Timestamped(coll, H) ==
    IF coll = <<>> THEN <<>>
    ELSE LET memory == Head(coll)
             ts     == ParseCreatedAt(memory)
             rest   == Timestamped(Tail(coll), H)
         IN  IF ts = NoTimestamp THEN rest
             ELSE IF H # NoFilter /\ AgeTicks(ts) > H * TicksPerHour THEN rest
             ELSE <<[key |-> ts, item |-> memory @@ [age_hours |-> AgeTicks(ts)]]>> \o rest

\* s[:limit] for limit >= 0
Prefix(s, limit) == SubSeq(s, 1, Min(limit, Len(s)))

\* float(created_at) raises OverflowError, which the inner
\* "except (ValueError, TypeError)" does not catch
FloatOverflows(coll) == \E i \in 1..Len(coll) : coll[i].created_at.k = "huge"

GetMemoriesByTimestampResult(coll, limit, H) ==
    IF RaisesOnGet(coll) \/ FloatOverflows(coll) THEN <<>>
    ELSE Prefix(Items(SortDesc(Timestamped(coll, H))), limit)

(***************************************************************************)
(* The objects behind a call.  heap is the sequence of the dicts that      *)
(* exist, an address is an index into it; the records of the input list    *)
(* are at the addresses 1..n, in the order of the list.                    *)
(***************************************************************************)
\* scored_memory = memory_obj: the same dict, no copy
DictCopyMutAlias(heap, addr) == [heap |-> heap, addr |-> addr]

\* memory.copy(): a new dict with the items of the dict at addr
DictCopy(heap, addr) == [heap |-> Append(heap, heap[addr]), addr |-> Len(heap) + 1]

\* d[key] = value for every key of fields, on the dict at addr
SetItems(heap, addr, fields) == [heap EXCEPT ![addr] = fields @@ @]

\* the fields a derived record has and its source lacks or holds differently
DerivedFields(derived, source) ==
    LET keys == {f \in DOMAIN derived : f \notin DOMAIN source \/ derived[f] # source[f]}
    IN  [f \in keys |-> derived[f]]

\* the heap after the loop of get_memories_by_timestamp from record i on:
\* sort_timestamp and age_hours are set on memory_with_timestamp
RECURSIVE TimestampHeap(_, _, _, _)
TimestampHeap(heap, i, n, H) ==
    IF i > n THEN heap
    ELSE IF ~heap[i].mapping \/ heap[i].created_at.k = "huge" THEN heap
    ELSE LET ts == ParseCreatedAt(heap[i])
         IN  IF ts = NoTimestamp \/ (H # NoFilter /\ AgeTicks(ts) > H * TicksPerHour)
             THEN TimestampHeap(heap, i + 1, n, H)
             ELSE LET memory_with_timestamp == DictCopy(heap, i)
                  IN  TimestampHeap(
                          SetItems(memory_with_timestamp.heap, memory_with_timestamp.addr,
                                   [sort_timestamp |-> ts, age_hours |-> AgeTicks(ts)]),
                          i + 1, n, H)

\* the input list of get_memories_by_timestamp as it is after the call
\* (sort and pop act on the new list and on its records)
TimestampInputAfter(coll, H) == SubSeq(TimestampHeap(coll, 1, Len(coll), H), 1, Len(coll))

InitTimestamp ==
    /\ pc = "call"
    /\ \E coll \in Collections, limit \in 0..MaxLimit, H \in TimeFilters :
          args = [op |-> "get_memories_by_timestamp", memory_collection |-> coll,
                  limit |-> limit, time_filter_hours |-> H]
    /\ ret = NoRet
    /\ profile = NoProfile
    /\ embedding = NoEmbedding /\ tabs = NoTabs

GetMemoriesByTimestamp ==
    /\ pc = "call"
    /\ args.op = "get_memories_by_timestamp"
    /\ ret' = [op |-> args.op, raised |-> FALSE,
               memories |-> GetMemoriesByTimestampResult(
                                args.memory_collection, args.limit, args.time_filter_hours),
               input |-> TimestampInputAfter(args.memory_collection, args.time_filter_hours)]
    /\ pc' = "done"
    /\ UNCHANGED <<args, profile, embedding, tabs>>

NextTimestamp == GetMemoriesByTimestamp

SpecTimestamp == InitTimestamp /\ [][NextTimestamp]_vars

TimestampDone == pc = "done" /\ args.op = "get_memories_by_timestamp"

\* the input records that have a parseable timestamp and pass the age filter
Eligible(coll, H) ==
    {i \in 1..Len(coll) :
        /\ ParseCreatedAt(coll[i]) # NoTimestamp
        /\ (H = NoFilter \/ AgeTicks(ParseCreatedAt(coll[i])) <= H * TicksPerHour)}

ExpTable ==
    <<
       10000, 7788, 6065, 4724, 3679, 2865, 2231, 1738, 1353, 1054, 821, 639, 498, 388,
       302, 235, 183, 143, 111, 87, 67, 52, 41, 32, 25, 19, 15, 12,
       9, 7, 6, 4, 3, 3, 2, 2, 1, 1, 1, 1, 0, 0
    >>

\* ScoreScale * exp(-xm / 1000) for xm >= 0
ExpNegPos(xm) ==
    LET k == xm \div 250
    IN  IF k + 2 > Len(ExpTable) THEN 0
        ELSE ExpTable[k + 1] - ((ExpTable[k + 1] - ExpTable[k + 2]) * (xm % 250)) \div 250

\* ScoreScale * exp(-xm / 1000); xm < 0 for a timestamp in the future
ExpNeg(xm) ==
    IF xm >= 0 THEN ExpNegPos(xm)
    ELSE (ScoreScale * ScoreScale) \div Max(1, ExpNegPos(0 - xm))

\* decay_rate * age_hours / 24, in thousandths
DecayExponent(age, prof) == (age * 10 * 1000) \div (24 * (prof.std_tenths + 10 * TicksPerHour))

BoostMutMediumFirst(age, prof) ==
    IF 4 * age <= prof.recent_x4 THEN 10
    ELSE IF 4 * age <= prof.old_x4 THEN 12
    ELSE 8

\* ten times the boost
Boost(age, prof) ==
    IF 4 * age <= prof.recent_x4 THEN 12
    ELSE IF 4 * age <= prof.old_x4 THEN 10
    ELSE 8

\* base_score * boost, in units of 1 / (10 * ScoreScale)
CalculateTemporalScore(age, prof) == ExpNeg(DecayExponent(age, prof)) * Boost(age, prof)

(***************************************************************************)
(* adaptive_temporal_scoring.  The fused score is kept in units of         *)
(* 1 / FusedScale, FusedScale = 20 * ScoreScale * ConfScale, so that       *)
(*   semantic_score                       is 20 * ConfScale * score,       *)
(*   t * c + s * (1 - c)                  is 2 * (t*c + 10*s*(ConfScale-c)),*)
(*   s * (1 - c * 0.5) + t * (c * 0.5)    is 10*s*(2*ConfScale - c) + t*c. *)
(***************************************************************************)
FusedScale == 20 * ScoreScale * ConfScale

\* memory_obj.get("score", 0.0)
SemanticScore(memory) == IF memory.hasScore THEN memory.score ELSE 0

\* final_score of one record
FinalScoreMutNoHalving(memory, intent, c, prof) ==
    LET s  == SemanticScore(memory)
        ts == ParseCreatedAt(memory)
    IN  IF ts = NoTimestamp THEN 20 * ConfScale * s
        ELSE 2 * (CalculateTemporalScore(AgeTicks(ts), prof) * c + 10 * s * (ConfScale - c))

FinalScoreMutMixAlways(memory, intent, c, prof) ==
    LET s  == SemanticScore(memory)
        ts == ParseCreatedAt(memory)
        t  == IF ts = NoTimestamp THEN CalculateTemporalScore(0, prof)
              ELSE CalculateTemporalScore(AgeTicks(ts), prof)
    IN  IF intent = "temporal_primary"
        THEN 2 * (t * c + 10 * s * (ConfScale - c))
        ELSE 10 * s * (2 * ConfScale - c) + t * c

FinalScore(memory, intent, c, prof) ==
    LET s  == SemanticScore(memory)
        ts == ParseCreatedAt(memory)
    IN  IF ts = NoTimestamp THEN 20 * ConfScale * s
        ELSE LET t == CalculateTemporalScore(AgeTicks(ts), prof)
             IN  IF intent = "temporal_primary"
                 THEN 2 * (t * c + 10 * s * (ConfScale - c))
                 ELSE 10 * s * (2 * ConfScale - c) + t * c

\* scored_memory: the copy with the derived fields
ScoredMemory(memory, intent, c, prof) ==
    LET ts   == ParseCreatedAt(memory)
        base == memory @@ [temporal_score |-> FinalScore(memory, intent, c, prof),
                           original_semantic_score |-> SemanticScore(memory)]
    IN  IF ts # NoTimestamp /\ ts # 0 THEN base @@ [age_hours |-> AgeTicks(ts)] ELSE base

\* the loop: scored_memories, each with its sort key
RECURSIVE ScoredMemoriesMutDrop(_, _, _, _)
ScoredMemoriesMutDrop(objs, intent, c, prof) ==
    IF objs = <<>> THEN <<>>
    ELSE LET m    == ScoredMemory(Head(objs), intent, c, prof)
             rest == ScoredMemoriesMutDrop(Tail(objs), intent, c, prof)
         IN  IF ParseCreatedAt(Head(objs)) = NoTimestamp THEN rest
             ELSE <<[key |-> m.temporal_score, item |-> m]>> \o rest

RECURSIVE ScoredMemories(_, _, _, _)
ScoredMemories(objs, intent, c, prof) ==
    IF objs = <<>> THEN <<>>
    ELSE LET m == ScoredMemory(Head(objs), intent, c, prof)
         IN  <<[key |-> m.temporal_score, item |-> m]>>
                 \o ScoredMemories(Tail(objs), intent, c, prof)

\* an exception is raised inside the try block: a record that is not a
\* mapping, or a timestamped record with a confidence that cannot be
\* multiplied
ScoringRaisesInside(objs, confidence) ==
    \/ RaisesOnGet(objs)
    \/ ~confidence.ok /\ \E i \in 1..Len(objs) : ParseCreatedAt(objs[i]) # NoTimestamp

\* adaptive_temporal_scoring(memory_objects, intent, confidence, profile)
\* with self._profile = stored: the list returned and self._profile after
AdaptiveTemporalScoringResultMutAlwaysScore(objs, intent, confidence, explicit, stored) ==
    LET built == BuildProfileResult(objs, stored)
        prof  == IF explicit # NoProfile THEN explicit
                 ELSE IF stored # NoProfile THEN stored
                 ELSE built.profile
        after == IF explicit = NoProfile /\ stored = NoProfile
                 THEN built.stored ELSE stored
    IN  IF ScoringRaisesInside(objs, confidence)
        THEN [memories |-> objs, stored |-> after]
        ELSE [memories |-> Items(SortDesc(ScoredMemories(objs, intent, confidence.v, prof))),
              stored |-> after]

AdaptiveTemporalScoringResult(objs, intent, confidence, explicit, stored) ==
    IF intent = "semantic_only" THEN [memories |-> objs, stored |-> stored]
    ELSE LET built == BuildProfileResult(objs, stored)
             prof  == IF explicit # NoProfile THEN explicit
                      ELSE IF stored # NoProfile THEN stored
                      ELSE built.profile
             after == IF explicit = NoProfile /\ stored = NoProfile
                      THEN built.stored ELSE stored
         IN  IF ScoringRaisesInside(objs, confidence)
             THEN [memories |-> objs, stored |-> after]
             ELSE [memories |-> Items(SortDesc(ScoredMemories(objs, intent, confidence.v, prof))),
                   stored |-> after]

\* confidences passed to the Scorer
ScoreConfidences == {Conf(0), Conf((3 * ConfScale) \div 10), Conf((7 * ConfScale) \div 10),
                     Conf(ConfScale), BadConf}

\* collections profiled by an earlier build_temporal_profile call on the
\* same instance
EarlierCollections == {c \in Collections : Len(c) = 1 /\ c[1].id \in {"m3", "m5"}}

\* the heap after the loop of adaptive_temporal_scoring from record i on:
\* temporal_score, original_semantic_score and age_hours are set on
\* scored_memory; the loop ends at the first record that raises
RECURSIVE ScoringHeap(_, _, _, _, _, _)
ScoringHeap(heap, i, n, intent, confidence, prof) ==
    IF i > n THEN heap
    ELSE IF ~heap[i].mapping THEN heap
    ELSE IF ~confidence.ok /\ ParseCreatedAt(heap[i]) # NoTimestamp THEN heap
    ELSE LET memory_obj == heap[i]
             scored_memory == DictCopy(heap, i)
         IN  ScoringHeap(
                 SetItems(scored_memory.heap, scored_memory.addr,
                          DerivedFields(ScoredMemory(memory_obj, intent, confidence.v, prof),
                                        memory_obj)),
                 i + 1, n, intent, confidence, prof)

\* the input list of adaptive_temporal_scoring as it is after the call (the
\* sort acts on scored_memories)
ScoringInputAfter(objs, intent, confidence, explicit, stored) ==
    IF intent = "semantic_only" THEN objs
    ELSE LET prof == IF explicit # NoProfile THEN explicit
                     ELSE IF stored # NoProfile THEN stored
                     ELSE BuildProfileResult(objs, stored).profile
         IN  SubSeq(ScoringHeap(objs, 1, Len(objs), intent, confidence, prof), 1, Len(objs))

InitScore ==
    /\ pc = "new"
    /\ \E objs \in Collections, intent \in Intents, c \in ScoreConfidences,
          explicit \in {NoProfile, DefaultProfile} :
          args = [op |-> "adaptive_temporal_scoring", memory_objects |-> objs,
                  intent |-> intent, confidence |-> c, profile |-> explicit]
    /\ ret = NoRet
    /\ profile = NoProfile
    /\ embedding = NoEmbedding /\ tabs = NoTabs

\* an earlier call of build_temporal_profile on the instance
BuildEarlierProfile ==
    /\ pc = "new"
    /\ args.op = "adaptive_temporal_scoring"
    /\ \E coll \in EarlierCollections :
          profile' = BuildProfileResult(coll, profile).stored
    /\ pc' = "call"
    /\ UNCHANGED <<args, ret, embedding, tabs>>

AdaptiveTemporalScoring ==
    /\ pc \in {"new", "call"}
    /\ args.op = "adaptive_temporal_scoring"
    /\ LET r == AdaptiveTemporalScoringResult(args.memory_objects, args.intent,
                                              args.confidence, args.profile, profile)
       IN  /\ ret' = [op |-> args.op, raised |-> FALSE, memories |-> r.memories,
                      input |-> ScoringInputAfter(args.memory_objects, args.intent,
                                                  args.confidence, args.profile, profile)]
           /\ profile' = r.stored
    /\ pc' = "done"
    /\ UNCHANGED <<args, embedding, tabs>>

NextScore == BuildEarlierProfile \/ AdaptiveTemporalScoring

SpecScore == InitScore /\ [][NextScore]_vars

ScoreDone == pc = "done" /\ args.op = "adaptive_temporal_scoring"

\* the key list.sort reads: x.get("temporal_score", 0.0)
SortKey(m) == IF "temporal_score" \in DOMAIN m THEN m.temporal_score ELSE 0

\* position of the record with identifier id in the list
PosOf(objs, id) == CHOOSE i \in 1..Len(objs) : objs[i].id = id

\* C7: under TEMPORAL_PRIMARY or TEMPORAL_SECONDARY the returned list is
\* in descending order of the fused score (the temporal_score field), and
\* records with equal fused score keep their relative input order.
C7_SortedStable ==
    (ScoreDone /\ args.intent # "semantic_only") =>
        \A k, l \in 1..Len(ret.memories) : k < l =>
            /\ SortKey(ret.memories[k]) >= SortKey(ret.memories[l])
            /\ SortKey(ret.memories[k]) = SortKey(ret.memories[l]) =>
                   PosOf(args.memory_objects, ret.memories[k].id)
                       < PosOf(args.memory_objects, ret.memories[l].id)

\* a scored list that was reordered and holds two records with the same
\* fused score
C7_Witness ==
    /\ ScoreDone
    /\ args.intent # "semantic_only"
    /\ Len(ret.memories) = 3
    /\ "temporal_score" \in DOMAIN ret.memories[1]
    /\ ret.memories[1].id # args.memory_objects[1].id
    /\ ret.memories[2].temporal_score = ret.memories[3].temporal_score
    /\ ret.memories[1].temporal_score > ret.memories[2].temporal_score

\* C9: a returned record whose created_at is missing or unparseable has a
\* final score equal to its semantic score, under every intent and
\* confidence: its temporal_score is the semantic score when the Scorer
\* wrote one, and its score field is the one it came in with.
C9_NoTimestampKeepsSemantic ==
    ScoreDone =>
        \A k \in 1..Len(ret.memories) :
            LET m  == ret.memories[k]
                in == args.memory_objects[PosOf(args.memory_objects, m.id)]
            IN  ParseCreatedAt(in) = NoTimestamp =>
                    /\ m.hasScore = in.hasScore /\ m.score = in.score
                    /\ "temporal_score" \in DOMAIN m =>
                           /\ m.temporal_score
                                  = (IF in.hasScore THEN in.score ELSE 0) * (FusedScale \div ScoreScale)
                           /\ m.original_semantic_score = (IF in.hasScore THEN in.score ELSE 0)

\* a record without a parseable timestamp scored next to a timestamped one
\* under a temporal intent with confidence > 0
C9_Witness ==
    /\ ScoreDone
    /\ args.intent = "temporal_primary"
    /\ args.confidence.ok /\ args.confidence.v > 0
    /\ \E k, l \in 1..Len(ret.memories) :
          /\ ParseCreatedAt(ret.memories[k]) = NoTimestamp
          /\ "temporal_score" \in DOMAIN ret.memories[k]
          /\ ret.memories[k].temporal_score > 0
          /\ ParseCreatedAt(ret.memories[l]) # NoTimestamp

\* C10: under every intent, on every input list, the Scorer returns
\* exactly the input records: as many as it was given, each identifier once.
C10_NoRecordDropped ==
    ScoreDone =>
        /\ Len(ret.memories) = Len(args.memory_objects)
        /\ \A i \in 1..Len(args.memory_objects) :
               Cardinality({k \in 1..Len(ret.memories) :
                               ret.memories[k].id = args.memory_objects[i].id}) = 1

\* a scored list holding a record without a parseable timestamp
C10_Witness ==
    /\ ScoreDone
    /\ args.intent = "temporal_secondary"
    /\ Len(ret.memories) = 3
    /\ \E k \in 1..3 :
          /\ ParseCreatedAt(ret.memories[k]) = NoTimestamp
          /\ "temporal_score" \in DOMAIN ret.memories[k]
    /\ \E k \in 1..3 : "age_hours" \in DOMAIN ret.memories[k]

(***************************************************************************)
(* analyze_intent.  Query texts are strings; the three sub-scores are      *)
(* kept in hundredths (semantic, linguistic) and as the exact fraction     *)
(* stat_num / (10 * VarDen) (statistical).                                 *)
(***************************************************************************)
UpperChars == "ABCDEFGHIJKLMNOPQRSTUVWXYZ"

LowerChars == "abcdefghijklmnopqrstuvwxyz"

LowerChar(ch) ==
    IF \E i \in 1..Len(UpperChars) : SubSeq(UpperChars, i, i) = ch
    THEN LET i == CHOOSE i \in 1..Len(UpperChars) : SubSeq(UpperChars, i, i) = ch
         IN  SubSeq(LowerChars, i, i)
    ELSE ch

\* str.lower()
RECURSIVE LowerStr(_)
LowerStr(q) ==
    IF Len(q) = 0 THEN q
    ELSE LowerChar(SubSeq(q, 1, 1)) \o LowerStr(SubSeq(q, 2, Len(q)))

\* str.strip()
RECURSIVE StripStr(_)
StripStr(q) ==
    IF Len(q) = 0 THEN q
    ELSE IF SubSeq(q, 1, 1) = " " THEN StripStr(SubSeq(q, 2, Len(q)))
    ELSE IF SubSeq(q, Len(q), Len(q)) = " " THEN StripStr(SubSeq(q, 1, Len(q) - 1))
    ELSE q

\* sub in q
Contains(q, sub) ==
    \E i \in 1..(Len(q) - Len(sub) + 1) : SubSeq(q, i, i + Len(sub) - 1) = sub

\* q.startswith(prefix)
StartsWith(q, prefix) == Len(q) >= Len(prefix) /\ SubSeq(q, 1, Len(prefix)) = prefix

\* len(q.split()): the starts of the whitespace-delimited tokens
TokenCount(q) ==
    Cardinality({i \in 1..Len(q) :
        SubSeq(q, i, i) # " " /\ (i = 1 \/ SubSeq(q, i - 1, i - 1) = " ")})

\* the five pattern families of _linguistic_temporal_analysis
MatchedPatterns(q) ==
    {f \in 1..5 :
        \/ f = 1 /\ \E w \in {"when", "what time", "how long ago"} : Contains(q, w)
        \/ f = 2 /\ \E w \in {"most", "latest", "newest", "oldest", "first", "last"} : Contains(q, w)
        \/ f = 3 /\ \E w \in {"order", "sequence", "chronological", "timeline"} : Contains(q, w)
        \/ f = 4 /\ \E w \in {"recent", "new", "fresh"} : Contains(q, w)
        \/ f = 5 /\ \E w \in {"before", "after", "since"} : Contains(q, w)}

\* _linguistic_temporal_analysis, in hundredths
LinguisticTemporalScore(query) ==
    LET q     == StripStr(LowerStr(query))
        conf  == Min((Cardinality(MatchedPatterns(q)) * 100) \div 5, 100)
        bonus == IF (\E pre \in {"what was", "show me", "find my"} : StartsWith(q, pre))
                    /\ TokenCount(q) <= 6
                 THEN 20 ELSE 0
    IN  Min(conf + bonus, 100)

\* the queries analyze_intent is called with
AnalyzeQueries ==
    { "what did I see most recently",
      "tell me about quantum computing",
      "Show me latest NEW order since",
      "find my newest order since when",
      "  when was the last time before the new timeline ",
      "find my recent activity",
      "what was that",
      "show me everything I have ever looked at again",
      "" }

\* the linguistic score of each of these queries, computed once
LinguisticTable == [q \in AnalyzeQueries |-> LinguisticTemporalScore(q)]

LinguisticTemporalAnalysis(query) ==
    IF query \in DOMAIN LinguisticTable THEN LinguisticTable[query]
    ELSE LinguisticTemporalScore(query)

\* denominator of the variance factor: age_variance / 1000 = VarTimesN2 / VarDen
VarDen(n) == 1000 * TicksPerHour * TicksPerHour * n * n

\* _estimate_temporal_benefit: [num, n] with temporal_benefit = num / (10 * VarDen(n))
EstimateTemporalBenefitMutNoCap(query, coll) ==
    IF coll = <<>> \/ RaisesOnGet(coll) \/ CollectAges(coll) = <<>>
    THEN [num |-> 0, n |-> 1]
    ELSE LET ages == CollectAges(coll)
             n    == Len(ages)
             recent_count == CountIf(ages, LAMBDA a : a < 24 * TicksPerHour)
         IN  [num |-> 6 * recent_count * (VarDen(n) \div n) + 4 * VarTimesN2(ages), n |-> n]

EstimateTemporalBenefitMutNoVariance(query, coll) ==
    IF coll = <<>> \/ RaisesOnGet(coll) \/ CollectAges(coll) = <<>>
    THEN [num |-> 0, n |-> 1]
    ELSE LET ages == CollectAges(coll)
             n    == Len(ages)
             recent_count == CountIf(ages, LAMBDA a : a < 24 * TicksPerHour)
         IN  [num |-> 6 * recent_count * (VarDen(n) \div n), n |-> n]

EstimateTemporalBenefit(query, coll) ==
    IF coll = <<>> \/ RaisesOnGet(coll) \/ CollectAges(coll) = <<>>
    THEN [num |-> 0, n |-> 1]
    ELSE LET ages == CollectAges(coll)
             n    == Len(ages)
             recent_count == CountIf(ages, LAMBDA a : a < 24 * TicksPerHour)
             variance_factor == Min(VarTimesN2(ages), VarDen(n))
         IN  [num |-> 6 * recent_count * (VarDen(n) \div n) + 4 * variance_factor, n |-> n]

TemporalPatterns ==
    << "show me the most recent information",
       "what was the latest thing I accessed",
       "find my recent activity",
       "chronological order of my browsing",
       "time-based search results",
       "newest entries in my history" >>

\* utils.py: the size above which the embedding cache is trimmed
CacheLimit == 1000

\* utils.py: the number of oldest entries removed when the cache is trimmed
EvictCount == 200

\* _get_cache_key without metadata: the first 16 hex digits of the sha256 of
\* the text, taken as free of collisions: equal keys exactly for equal texts
GetCacheKey(text) == "sha256/" \o text

\* cache_key in _embedding_cache
InCache(cache, cache_key) == \E k \in 1..Len(cache) : cache[k] = cache_key

\* create_embedding with the cache check left out: every call goes upstream
CreateEmbeddingResultMutNoCache(emb, text, ok) ==
    [raised |-> ~ok, hit |-> FALSE,
     embedding |-> [emb EXCEPT !.misses = @ + 1,
                               !.upstream = Append(@, [text |-> text, ok |-> ok])]]

\* create_embedding with the size limit left out
CreateEmbeddingResultMutNoEvict(emb, text, ok) ==
    IF InCache(emb.cache, GetCacheKey(text))
    THEN [raised |-> FALSE, hit |-> TRUE, embedding |-> [emb EXCEPT !.hits = @ + 1]]
    ELSE [raised |-> ~ok, hit |-> FALSE,
          embedding |-> [emb EXCEPT !.misses = @ + 1,
                                    !.cache = IF ok THEN Append(@, GetCacheKey(text)) ELSE @,
                                    !.upstream = Append(@, [text |-> text, ok |-> ok])]]

\* create_embedding(text) on the module state emb; ok: the embedding service
\* answers the request (otherwise the exception is logged and raised again).
\* A dict keeps its keys in insertion order, so the cache is the sequence of
\* its keys and list(keys())[:200] is its first 200 elements.
CreateEmbeddingResult(emb, text, ok) ==
    LET cache_key == GetCacheKey(text)
    IN  IF InCache(emb.cache, cache_key)
        THEN [raised |-> FALSE, hit |-> TRUE,
              embedding |-> [emb EXCEPT !.hits = @ + 1]]
        ELSE IF ~ok
        THEN [raised |-> TRUE, hit |-> FALSE,
              embedding |-> [emb EXCEPT !.misses = @ + 1,
                                        !.upstream = Append(@, [text |-> text, ok |-> FALSE])]]
        ELSE LET inserted == Append(emb.cache, cache_key)
                 kept == IF Len(inserted) > CacheLimit
                         THEN SubSeq(inserted, EvictCount + 1, Len(inserted))
                         ELSE inserted
             IN  [raised |-> FALSE, hit |-> FALSE,
                  embedding |-> [cache |-> kept, hits |-> emb.hits,
                                 misses |-> emb.misses + 1,
                                 upstream |-> Append(emb.upstream,
                                                     [text |-> text, ok |-> TRUE])]]

\* the calls of create_embedding one _semantic_temporal_detection makes for
\* texts, the fail-th of them raising (0: none): the first exception ends
\* the detection
RECURSIVE EmbedTexts(_, _, _, _)
EmbedTexts(emb, texts, fail, j) ==
    IF texts = <<>> THEN emb
    ELSE LET r == CreateEmbeddingResult(emb, Head(texts), j # fail)
         IN  IF r.raised THEN r.embedding
             ELSE EmbedTexts(r.embedding, Tail(texts), fail, j + 1)

\* a cosine that is nan (an embedding of norm 0)
NanCos == -1000

\* max(max_similarity, similarity): a nan similarity never replaces the maximum
RECURSIVE MaxSimilarity(_, _)
MaxSimilarity(sims, acc) ==
    IF sims = <<>> THEN acc
    ELSE MaxSimilarity(Tail(sims),
                       IF Head(sims) # NanCos /\ Head(sims) > acc THEN Head(sims) ELSE acc)

\* the texts create_embedding is called for, in order, on an empty
\* self._query_embeddings_cache
EmbeddedTexts(query) ==
    <<query>> \o SelectSeq(TemporalPatterns, LAMBDA t : t # query)

\* _semantic_temporal_detection, in hundredths.  embedder.fail = j > 0: the
\* j-th call of create_embedding raises; embedder.sims[k]: the cosine of the
\* query and pattern k (1 when the two texts are the same string).
SemanticTemporalDetectionMutKeepMax(query, embedder) ==
    MaxSimilarity([k \in 1..Len(TemporalPatterns) |->
                      IF k < embedder.fail - 1 \/ embedder.fail = 0
                      THEN embedder.sims[k] ELSE 0], 0)

SemanticTemporalDetection(query, embedder) ==
    IF embedder.fail > 0 /\ embedder.fail <= Len(EmbeddedTexts(query)) THEN 0
    ELSE MaxSimilarity([k \in 1..Len(TemporalPatterns) |->
                           IF TemporalPatterns[k] = query /\ embedder.sims[k] # NanCos
                           THEN 100 ELSE embedder.sims[k]], 0)

\* the intent selected by confidence num / den
IntentOfMutHighThreshold(num, den) ==
    IF num >= 8 * (den \div 10) THEN "temporal_primary"
    ELSE IF num >= 3 * (den \div 10) THEN "temporal_secondary"
    ELSE "semantic_only"

IntentOfMutLowThreshold(num, den) ==
    IF num >= 7 * (den \div 10) THEN "temporal_primary"
    ELSE IF num >= 2 * (den \div 10) THEN "temporal_secondary"
    ELSE "semantic_only"

IntentOfMutStrict(num, den) ==
    IF num > 7 * (den \div 10) THEN "temporal_primary"
    ELSE IF num > 3 * (den \div 10) THEN "temporal_secondary"
    ELSE "semantic_only"

IntentOf(num, den) ==
    IF num >= 7 * (den \div 10) THEN "temporal_primary"
    ELSE IF num >= 3 * (den \div 10) THEN "temporal_secondary"
    ELSE "semantic_only"

\* analyze_intent: combined_confidence = num / den with den = 1000 * VarDen(n)
AnalyzeIntentResult(query, coll, embedder) ==
    LET temporal_confidence   == SemanticTemporalDetection(query, embedder)
        temporal_benefit      == EstimateTemporalBenefit(query, coll)
        linguistic_confidence == LinguisticTemporalAnalysis(query)
        D   == VarDen(temporal_benefit.n)
        num == 4 * temporal_confidence * D + 30 * temporal_benefit.num
                   + 3 * linguistic_confidence * D
    IN  [intent |-> IntentOf(num, 1000 * D), num |-> num, den |-> 1000 * D]

\* behaviours of the embedding collaborator: no failure with one of a few
\* cosine vectors, or a failure at the first, a middle or the last call
Embedders ==
    {[fail |-> 0, sims |-> t] :
        t \in { <<-50, -50, -50, -50, -50, -50>>,
                <<0, 0, 0, 0, 0, 0>>,
                <<10, 75, 20, NanCos, 0, -5>>,
                <<40, 30, 20, 10, 5, 0>>,
                <<60, 100, 90, 80, 70, 60>> }}
    \cup {[fail |-> j, sims |-> <<100, 100, 100, 100, 100, 100>>] : j \in {1, 4, 7}}

InitIntent ==
    /\ pc = "call"
    /\ \E q \in AnalyzeQueries, coll \in Collections, e \in Embedders :
          args = [op |-> "analyze_intent", query |-> q, memory_collection |-> coll,
                  embedder |-> e]
    /\ ret = NoRet
    /\ profile = NoProfile
    /\ embedding = NoEmbedding /\ tabs = NoTabs

AnalyzeIntent ==
    /\ pc = "call"
    /\ args.op = "analyze_intent"
    /\ ret' = [op |-> args.op, raised |-> FALSE] @@
              AnalyzeIntentResult(args.query, args.memory_collection, args.embedder)
    /\ embedding' = EmbedTexts(embedding, EmbeddedTexts(args.query), args.embedder.fail, 1)
    /\ pc' = "done"
    /\ UNCHANGED <<args, profile, tabs>>

NextIntent == AnalyzeIntent

SpecIntent == InitIntent /\ [][NextIntent]_vars

IntentDone == pc = "done" /\ args.op = "analyze_intent"

C2_IntentThresholds ==
    IntentDone =>
        /\ ret.intent \in Intents
        /\ ret.den % 10 = 0
        /\ ret.intent = "temporal_primary" <=> ret.num >= (ret.den \div 10) * 7
        /\ ret.intent = "temporal_secondary" <=>
               (ret.num >= (ret.den \div 10) * 3 /\ ret.num < (ret.den \div 10) * 7)
        /\ ret.intent = "semantic_only" <=> ret.num < (ret.den \div 10) * 3

\* confidence exactly 0.7 gives TEMPORAL_PRIMARY
C2_Witness ==
    /\ IntentDone
    /\ ret.num = (ret.den \div 10) * 7
    /\ ret.intent = "temporal_primary"


(***************************************************************************)
(* _calculate_temporal_score on its own: the scorer passes it the age of   *)
(* a record with a parsed timestamp and a profile.  Two records are scored *)
(* against the same profile so that their scores can be compared.          *)
(***************************************************************************)
\* a record whose created_at lies 65 hours after current_time
FutureMemory == Rec("m9", TRUE, "iso", CurrentTime + 65 * TicksPerHour, TRUE, 5000)

\* records aged exactly at and just past the default thresholds of 1 hour
\* and 168 hours, and one a quarter of an hour in the future
BoundaryMemories ==
    { Rec("b1", TRUE, "iso", CurrentTime - 1 * TicksPerHour,       TRUE, 5000),
      Rec("b2", TRUE, "num", CurrentTime - 1 * TicksPerHour - 1,   TRUE, 5000),
      Rec("b3", TRUE, "iso", CurrentTime - 168 * TicksPerHour,     TRUE, 5000),
      Rec("b4", TRUE, "num", CurrentTime - 168 * TicksPerHour - 1, TRUE, 5000),
      Rec("b5", TRUE, "iso", CurrentTime + 1,                      TRUE, 5000) }

TimestampedMemories ==
    {m \in Memories \cup BoundaryMemories \cup {FutureMemory} :
        m.mapping /\ ParseCreatedAt(m) # NoTimestamp}

\* collections that hold the future-dated record
FutureCollections ==
    {<<FutureMemory>> \o c : c \in {x \in Collections : Len(x) <= 1}}
    \cup {c \o <<FutureMemory>> : c \in {x \in Collections : Len(x) = 1}}

\* the profiles build_temporal_profile can return for these collections
TemporalProfiles ==
    {BuildProfileResult(c, NoProfile).profile : c \in Collections \cup FutureCollections}

\* base_score, in units of 1 / ScoreScale
BaseScore(age, prof) == ExpNeg(DecayExponent(age, prof))

InitTemporal ==
    /\ pc = "call"
    /\ \E a, b \in TimestampedMemories, prof \in TemporalProfiles :
          args = [op |-> "_calculate_temporal_score", memories |-> <<a, b>>, profile |-> prof]
    /\ ret = NoRet
    /\ profile = NoProfile
    /\ embedding = NoEmbedding /\ tabs = NoTabs

CalculateTemporalScoreCall ==
    /\ pc = "call"
    /\ args.op = "_calculate_temporal_score"
    /\ LET age(k) == AgeTicks(ParseCreatedAt(args.memories[k]))
       IN  ret' = [op |-> args.op, raised |-> FALSE,
                   age_ticks |-> [k \in 1..2 |-> age(k)],
                   base_score |-> [k \in 1..2 |-> BaseScore(age(k), args.profile)],
                   score |-> [k \in 1..2 |-> CalculateTemporalScore(age(k), args.profile)]]
    /\ pc' = "done"
    /\ UNCHANGED <<args, profile, embedding, tabs>>

NextTemporal == CalculateTemporalScoreCall

SpecTemporal == InitTemporal /\ [][NextTemporal]_vars

TemporalDone == pc = "done" /\ args.op = "_calculate_temporal_score"

\* C11: under one fixed profile, of two ages the smaller one never gets the
\* lower temporal score: a1 < a2 implies score(a1) >= score(a2).
C11_MonotonicRecency ==
    TemporalDone /\ ret.age_ticks[1] < ret.age_ticks[2]
        => ret.score[1] >= ret.score[2]

\* two ages in different boost brackets of a profile whose recent threshold
\* lies above its old threshold (a single record aged 200 hours)
C11_Witness ==
    /\ TemporalDone
    /\ args.profile.recent_x4 > args.profile.old_x4
    /\ ret.age_ticks[1] < ret.age_ticks[2]
    /\ Boost(ret.age_ticks[1], args.profile) # Boost(ret.age_ticks[2], args.profile)
    /\ ret.score[1] > ret.score[2]

\* C12: for every record with a parseable timestamp and every profile the
\* base exponential-decay score lies in [0, 1], so that the boosted
\* temporal score never exceeds 1.2.
C12_BaseScoreInUnitRange ==
    TemporalDone =>
        \A k \in 1..2 :
            /\ ret.base_score[k] >= 0
            /\ ret.base_score[k] <= ScoreScale
            /\ ret.score[k] <= 12 * ScoreScale

\* the profile the Scorer used: the profile argument, else self._profile
\* (which holds the profile built from memory_objects when none was stored)
ProfileUsed == IF args.profile # NoProfile THEN args.profile ELSE profile

\* C13: the final score of a timestamped record is
\*   temporal * confidence + semantic * (1 - confidence)  under TEMPORAL_PRIMARY,
\*   semantic * (1 - w) + temporal * w, w = confidence * 0.5, under TEMPORAL_SECONDARY;
\* for a confidence in [0, 1] the SECONDARY weight is at most 0.5, and the
\* weight applied is the temporal_weight route_query reports for the same
\* intent and confidence.  w2 is twice the weight, in units of 1 / ConfScale.
C13_FusionWeights ==
    (ScoreDone /\ args.intent # "semantic_only" /\ args.confidence.ok
        /\ ~RaisesOnGet(args.memory_objects)) =>
        LET c     == args.confidence.v
            w2    == IF args.intent = "temporal_primary" THEN 2 * c ELSE c
            route == RouteQueryResult("", args.memory_objects, args.intent, args.confidence)
        IN  /\ \A k \in 1..Len(ret.memories) :
                   LET m == ret.memories[k]
                   IN  ParseCreatedAt(m) # NoTimestamp =>
                           m.temporal_score
                               = CalculateTemporalScore(AgeTicks(ParseCreatedAt(m)), ProfileUsed) * w2
                                 + 10 * m.original_semantic_score * (2 * ConfScale - w2)
            /\ args.intent = "temporal_secondary" => w2 <= ConfScale
            /\ route.strategy = "semantic_temporal_hybrid" => route.params.temporal_weight = w2

\* a timestamped record scored under TEMPORAL_SECONDARY with confidence 0.3,
\* which route_query sends to the hybrid strategy; its temporal and
\* semantic scores differ
C13_Witness ==
    /\ ScoreDone
    /\ args.intent = "temporal_secondary"
    /\ args.confidence.ok /\ 10 * args.confidence.v = 3 * ConfScale
    /\ RouteQueryResult("", args.memory_objects, args.intent, args.confidence).strategy
           = "semantic_temporal_hybrid"
    /\ \E k \in 1..Len(ret.memories) :
          /\ "age_hours" \in DOMAIN ret.memories[k]
          /\ ret.memories[k].original_semantic_score > 0
          /\ CalculateTemporalScore(ret.memories[k].age_hours, ProfileUsed)
                 # 10 * ret.memories[k].original_semantic_score
          /\ ret.memories[k].temporal_score
                 # ret.memories[k].original_semantic_score * (FusedScale \div ScoreScale)

(***************************************************************************)
(* _unified_search_core (main.py), from the search results to              *)
(* final_memories: memory_objects are the records the memory client's      *)
(* search returned, all_memories what its get_all returns.  A fresh        *)
(* TemporalIntelligence is constructed for every call, so self._profile    *)
(* starts as None.  intent and confidence are what analyze_intent          *)
(* returned (the intent is the one its thresholds select).                 *)
(***************************************************************************)
\* the loop that appends the records of fresh_memory_objects[:10] whose id
\* is not among the search results; a record that is not a mapping raises
\* and ends the loop (what was appended stays)
RECURSIVE AppendFresh(_, _, _)
AppendFresh(objs, ids, fresh) ==
    IF fresh = <<>> THEN objs
    ELSE IF ~Head(fresh).mapping THEN objs
    ELSE AppendFresh(IF Head(fresh).id \in ids THEN objs ELSE Append(objs, Head(fresh)),
                     ids, Tail(fresh))

\* the fresh memory boost without the cut to the first ten records
FreshBoostMutUnbounded(objs, all) ==
    IF RaisesOnGet(objs) THEN objs
    ELSE AppendFresh(objs, {objs[i].id : i \in 1..Len(objs)}, all)

\* memory_objects after the fresh memory boost
FreshBoost(objs, all) ==
    IF RaisesOnGet(objs) THEN objs
    ELSE AppendFresh(objs, {objs[i].id : i \in 1..Len(objs)}, Prefix(all, 10))

\* the strategy, final_memories and memory_objects after "Execute strategy",
\* and self._profile of the TemporalIntelligence instance
UnifiedSearchResult(objs, all, limit, intent, confidence) ==
    LET route == RouteQueryResult("", objs, intent, confidence)
    IN  IF route.strategy = "timestamp_direct" THEN
            [strategy |-> route.strategy,
             final_memories |-> GetMemoriesByTimestampResult(all, limit, NoFilter),
             memory_objects |-> objs, stored |-> NoProfile]
        ELSE IF route.strategy = "semantic_temporal_hybrid" THEN
            LET merged == IF route.params.use_fresh_memory_boost
                          THEN FreshBoost(objs, all) ELSE objs
                scored == AdaptiveTemporalScoringResult(merged, intent, confidence,
                                                        NoProfile, NoProfile)
            IN  [strategy |-> route.strategy,
                 final_memories |-> Prefix(scored.memories, limit),
                 memory_objects |-> merged, stored |-> scored.stored]
        ELSE
            [strategy |-> route.strategy,
             final_memories |-> Prefix(objs, limit),
             memory_objects |-> objs, stored |-> NoProfile]

\* confidences analyze_intent can return, with the thresholds on both sides
SearchConfidences == {Conf((k * ConfScale) \div 10) : k \in {0, 3, 5, 7, 8, 9}}

\* search results
SearchResults == {c \in Collections : Len(c) < MaxLen}

\* what get_all returns
AllMemoryLists ==
    {c \in Collections :
        /\ Len(c) <= 2
        /\ Len(c) >= 1 => c[1].id = "m1"
        /\ Len(c) = 2 => c[2].id \in {"m3", "m5", "m6", "g8"}}

(***************************************************************************)
(* The results of the payload: one result per ranked memory, grouped by    *)
(* the domain of the first URL in its text.                                *)
(***************************************************************************)
\* memory_obj.get("memory", "")
MemoryContent(m) == IF "memory" \in DOMAIN m THEN m.memory ELSE ""

IsSpace(ch) == ch \in {" ", "\n", "\t"}

\* re.search(r'https?://[^\s]+', memory_content) after the test
\* "http" in memory_content: the first match, or "" when there is none
ExtractUrl(text) ==
    LET starts == {i \in 1..Len(text) :
                      \E scheme \in {"http://", "https://"} :
                          /\ i + Len(scheme) <= Len(text)
                          /\ SubSeq(text, i, i + Len(scheme) - 1) = scheme
                          /\ ~IsSpace(SubSeq(text, i + Len(scheme), i + Len(scheme)))}
    IN  IF ~Contains(text, "http") \/ starts = {} THEN ""
        ELSE LET i == CHOOSE i \in starts : \A j \in starts : i <= j
                 ends == {k \in i..Len(text) : IsSpace(SubSeq(text, k, k))} \cup {Len(text) + 1}
                 e == CHOOSE k \in ends : \A j \in ends : k <= j
             IN  SubSeq(text, i, e - 1)

\* urlparse(url).netloc.lower() without a leading "www."
SourceDomain(url) ==
    LET from == (CHOOSE i \in 1..Len(url) : SubSeq(url, i, i + 2) = "://") + 3
        ends == {k \in from..Len(url) : SubSeq(url, k, k) \in {"/", "?", "#"}}
                    \cup {Len(url) + 1}
        e == CHOOSE k \in ends : \A j \in ends : k <= j
        domain == LowerStr(SubSeq(url, from, e - 1))
    IN  IF StartsWith(domain, "www.") THEN SubSeq(domain, 5, Len(domain)) ELSE domain

\* the base result of a ranked memory, with its source_domain ("": no URL)
BaseResult(m, strategy) ==
    LET url == ExtractUrl(MemoryContent(m))
    IN  [id |-> m.id, ranking_method |-> strategy,
         source_url |-> url,
         source_domain |-> IF url = "" THEN "" ELSE SourceDomain(url)]

\* the keys of domain_groups in insertion order
RECURSIVE DomainKeys(_, _)
DomainKeys(results, seen) ==
    IF results = <<>> THEN seen
    ELSE LET d == Head(results).source_url
             domain == Head(results).source_domain
         IN  DomainKeys(Tail(results),
                        IF d = "" \/ \E k \in 1..Len(seen) : seen[k] = domain
                        THEN seen ELSE Append(seen, domain))

RECURSIVE DomainMemories(_, _)
DomainMemories(results, domains) ==
    IF domains = <<>> THEN <<>>
    ELSE SelectSeq(results, LAMBDA r : r.source_url # "" /\ r.source_domain = Head(domains))
             \o DomainMemories(results, Tail(domains))

\* enriched_results: memories_without_url first, then the memories of each
\* domain in the order of domain_groups (detailed_content is left out)
EnrichedResults(final_memories, strategy) ==
    LET results == [k \in 1..Len(final_memories) |-> BaseResult(final_memories[k], strategy)]
    IN  SelectSeq(results, LAMBDA r : r.source_url = "")
            \o DomainMemories(results, DomainKeys(results, <<>>))

InitSearch ==
    /\ pc = "call"
    /\ \E objs \in SearchResults, all \in AllMemoryLists, limit \in 0..MaxLimit,
          c \in SearchConfidences :
          args = [op |-> "_unified_search_core", memory_objects |-> objs,
                  all_memories |-> all, limit |-> limit,
                  intent |-> IntentOf(c.v, ConfScale), confidence |-> c]
    /\ ret = NoRet
    /\ profile = NoProfile
    /\ embedding = NoEmbedding /\ tabs = NoTabs

UnifiedSearchCore ==
    /\ pc = "call"
    /\ args.op = "_unified_search_core"
    /\ LET r == UnifiedSearchResult(args.memory_objects, args.all_memories, args.limit,
                                    args.intent, args.confidence)
       IN  /\ ret' = [op |-> args.op, raised |-> FALSE, strategy |-> r.strategy,
                      final_memories |-> r.final_memories,
                      memory_objects |-> r.memory_objects,
                      error |-> RaisesOnGet(r.final_memories),
                      results |-> IF RaisesOnGet(r.final_memories) THEN <<>>
                                  ELSE EnrichedResults(r.final_memories, r.strategy)]
           /\ profile' = r.stored
    /\ pc' = "done"
    /\ UNCHANGED <<args, embedding, tabs>>

NextSearch == UnifiedSearchCore

SpecSearch == InitSearch /\ [][NextSearch]_vars

SearchDone == pc = "done" /\ args.op = "_unified_search_core"

\* adaptive_temporal_scoring calls and unified searches side by side
InitSemanticOnly == InitScore \/ InitSearch

NextSemanticOnly == NextScore \/ NextSearch

SpecSemanticOnly == InitSemanticOnly /\ [][NextSemanticOnly]_vars

EmbedderFails ==
    args.embedder.fail > 0 /\ args.embedder.fail <= Len(EmbeddedTexts(args.query))

\* C15: when the embedder fails for the query or for any temporal pattern,
\* the semantic sub-score is exactly 0: analyze_intent raises nothing and
\* returns the confidence 0.3 * statistical + 0.3 * linguistic, with the
\* intent its thresholds select.
C15_EmbedderFailure ==
    (IntentDone /\ EmbedderFails) =>
        LET stat == EstimateTemporalBenefit(args.query, args.memory_collection)
            ling == LinguisticTemporalAnalysis(args.query)
            D    == VarDen(stat.n)
        IN  /\ ~ret.raised
            /\ ret.den = 1000 * D
            /\ ret.num = 30 * stat.num + 3 * ling * D
            /\ ret.intent \in Intents
            /\ ret.intent = "semantic_only" <=> ret.num < 3 * (ret.den \div 10)
            /\ ret.intent = "temporal_primary" <=> ret.num >= 7 * (ret.den \div 10)

\* the embedder fails on the third temporal pattern, after two cosines of
\* 1.0 were computed; the statistical and linguistic sub-scores alone give
\* TEMPORAL_SECONDARY
C15_Witness ==
    /\ IntentDone
    /\ args.embedder.fail = 4
    /\ Len(EmbeddedTexts(args.query)) = 7
    /\ args.embedder.sims[1] = 100
    /\ LinguisticTemporalAnalysis(args.query) > 0
    /\ EstimateTemporalBenefit(args.query, args.memory_collection).num > 0
    /\ ret.intent = "temporal_secondary"

(***************************************************************************)
(* The collection of ten records, eight aged under 24 hours and two aged   *)
(* over 500 hours.  The records are s1..s10 in list order; the two old     *)
(* records stand at positions i < j.                                       *)
(***************************************************************************)
ScenarioIds == <<"s1", "s2", "s3", "s4", "s5", "s6", "s7", "s8", "s9", "s10">>

\* ages in ticks of the eight recent records: all just created, all a
\* quarter of an hour short of 24 hours, and spread over the day
RecentAges ==
    { <<0, 0, 0, 0, 0, 0, 0, 0>>,
      <<95, 95, 95, 95, 95, 95, 95, 95>>,
      <<1, 3, 8, 20, 40, 60, 80, 95>> }

\* ages in ticks of the two old records, from a quarter of an hour past
\* 500 hours
OldAges ==
    { <<500 * TicksPerHour + 1, 500 * TicksPerHour + 1>>,
      <<500 * TicksPerHour + 1, 800 * TicksPerHour>>,
      <<900 * TicksPerHour, 555 * TicksPerHour>> }

\* semantic scores of the eight recent records and of the two old ones
RecentScores ==
    { <<5000, 5000, 5000, 5000, 5000, 5000, 5000, 5000>>,
      <<9000, 9000, 9000, 9000, 9000, 9000, 9000, 9000>>,
      <<1000, 2000, 3000, 4000, 6000, 7000, 8000, 9000>> }

OldScores == {<<a, b>> : a, b \in {1000, 5000, 9000}}

ScenarioCollection(recent, old, scoresR, scoresO, i, j) ==
    [k \in 1..10 |->
        LET r == IF k < i THEN k ELSE IF k < j THEN k - 1 ELSE k - 2
        IN  IF k = i THEN Rec(ScenarioIds[k], TRUE, "iso", CurrentTime - old[1], TRUE, scoresO[1])
            ELSE IF k = j THEN Rec(ScenarioIds[k], TRUE, "num", CurrentTime - old[2], TRUE, scoresO[2])
            ELSE Rec(ScenarioIds[k], TRUE, IF r % 2 = 0 THEN "iso" ELSE "num",
                     CurrentTime - recent[r], TRUE, scoresR[r])]

\* the identifiers of the recent and of the old records of a scenario list
IsOld(m) == AgeTicks(ParseCreatedAt(m)) > 500 * TicksPerHour

IsRecent(m) == AgeTicks(ParseCreatedAt(m)) < 24 * TicksPerHour

\* the positions i < j of the two old records
OldPositions == {p \in (1..10) \X (1..10) : p[1] < p[2]}

\* the scenario collections analyze_intent is called with: the semantic
\* scores play no part in it
ScenarioIntentCollections ==
    {ScenarioCollection(recent, old, <<5000, 5000, 5000, 5000, 5000, 5000, 5000, 5000>>,
                        <<5000, 5000>>, p[1], p[2]) :
        recent \in RecentAges, old \in OldAges, p \in OldPositions}

\* embedders whose six cosines are all v / 100, one that returns NaN and
\* one that fails on the query
ScenarioEmbedders ==
    {[fail |-> 0, sims |-> <<v, v, v, v, v, v>>] :
        v \in {-100, -1, 0, 1, 10, 29, 30, 50, 69, 70, 79, 99, 100, NanCos}}
    \cup {[fail |-> 1, sims |-> <<100, 100, 100, 100, 100, 100>>]}

ScenarioQueries == {"what did I see most recently", "tell me about quantum computing"}

InitScenarioIntent ==
    /\ pc = "call"
    /\ \E q \in ScenarioQueries, coll \in ScenarioIntentCollections, e \in ScenarioEmbedders :
          args = [op |-> "analyze_intent", query |-> q, memory_collection |-> coll,
                  embedder |-> e]
    /\ ret = NoRet
    /\ profile = NoProfile
    /\ embedding = NoEmbedding /\ tabs = NoTabs

SpecScenarioIntent == InitScenarioIntent /\ [][NextIntent]_vars

\* C16: on a collection of eight records aged under 24 hours and two aged
\* over 500 hours, "what did I see most recently" is classified
\* TEMPORAL_PRIMARY or TEMPORAL_SECONDARY with a confidence of at least 0.3,
\* whatever the semantic sub-score is (0.0 included).
C16_RecencyQueryIsTemporal ==
    (IntentDone /\ args.query = "what did I see most recently") =>
        /\ ret.intent \in {"temporal_primary", "temporal_secondary"}
        /\ ret.num >= 3 * (ret.den \div 10)

\* the embedder failed, so the semantic sub-score is 0.0, and the query is
\* still classified as temporal
C16_Witness ==
    /\ IntentDone
    /\ args.query = "what did I see most recently"
    /\ Len(args.memory_collection) = 10
    /\ Cardinality({k \in 1..10 : IsRecent(args.memory_collection[k])}) = 8
    /\ Cardinality({k \in 1..10 : IsOld(args.memory_collection[k])}) = 2
    /\ SemanticTemporalDetection(args.query, args.embedder) = 0
    /\ args.embedder.fail = 1
    /\ ret.intent = "temporal_secondary"

(***************************************************************************)
(* The two temporal strategies on the scenario collection:                 *)
(* get_memories_by_timestamp as timestamp_direct calls it, and             *)
(* adaptive_temporal_scoring on a new TemporalIntelligence with an intent  *)
(* and a confidence that route_query sends to semantic_temporal_hybrid.    *)
(***************************************************************************)
ScenarioRankPositions == {<<1, 2>>, <<1, 10>>, <<2, 7>>, <<5, 6>>, <<9, 10>>}

ScenarioRankCollections ==
    {ScenarioCollection(recent, old, scoresR, scoresO, p[1], p[2]) :
        recent \in RecentAges, old \in OldAges, scoresR \in RecentScores,
        scoresO \in OldScores, p \in ScenarioRankPositions}

\* intent and confidence pairs analyze_intent can return that are routed
\* to the hybrid strategy
HybridConfidences ==
    {Conf((k * ConfScale) \div 100) : k \in {30, 50, 69, 70, 80}}

InitScenarioScore ==
    /\ pc = "call"
    /\ \E coll \in ScenarioRankCollections, c \in HybridConfidences :
          args = [op |-> "adaptive_temporal_scoring", memory_objects |-> coll,
                  intent |-> IntentOf(c.v, ConfScale), confidence |-> c,
                  profile |-> NoProfile]
    /\ ret = NoRet
    /\ profile = NoProfile
    /\ embedding = NoEmbedding /\ tabs = NoTabs

InitScenarioTimestamp ==
    /\ pc = "call"
    /\ \E coll \in ScenarioRankCollections, limit \in {5, 10} :
          args = [op |-> "get_memories_by_timestamp", memory_collection |-> coll,
                  limit |-> limit, time_filter_hours |-> NoFilter]
    /\ ret = NoRet
    /\ profile = NoProfile
    /\ embedding = NoEmbedding /\ tabs = NoTabs

InitScenarioRank == InitScenarioScore \/ InitScenarioTimestamp

NextScenarioRank == AdaptiveTemporalScoring \/ GetMemoriesByTimestamp

SpecScenarioRank == InitScenarioRank /\ [][NextScenarioRank]_vars

\* every recent record of the returned list stands above every old one
RecentAboveOld(memories) ==
    \A k, l \in 1..Len(memories) :
        IsRecent(memories[k]) /\ IsOld(memories[l]) => k < l

\* no old record of the list has a higher semantic score than a recent one
OldNotMoreRelevant(memories) ==
    \A k, l \in 1..Len(memories) :
        IsRecent(memories[k]) /\ IsOld(memories[l])
            => SemanticScore(memories[l]) <= SemanticScore(memories[k])

\* C17 as stated: on the scenario collection both temporal strategies
\* place every recent record they return above both old records, whatever
\* semantic scores the records carry.
C17_RecentAboveOldAnyScores ==
    /\ TimestampDone => RecentAboveOld(ret.memories)
    /\ ScoreDone => RecentAboveOld(ret.memories)

\* C17: on the scenario collection timestamp_direct places every recent
\* record it returns above both old records, whatever the semantic scores;
\* the hybrid strategy does so whenever no old record has a higher semantic
\* score than a recent record.
C17_RecentAboveOld ==
    /\ TimestampDone => RecentAboveOld(ret.memories)
    /\ (ScoreDone /\ OldNotMoreRelevant(args.memory_objects))
           => RecentAboveOld(ret.memories)

\* the hybrid strategy moved the two old records, which came first and
\* carry the same semantic score as the recent ones, to the end
C17_Witness ==
    /\ ScoreDone
    /\ args.intent = "temporal_secondary"
    /\ OldNotMoreRelevant(args.memory_objects)
    /\ IsOld(args.memory_objects[1]) /\ IsOld(args.memory_objects[2])
    /\ SemanticScore(args.memory_objects[1]) = SemanticScore(args.memory_objects[3])
    /\ IsOld(ret.memories[9]) /\ IsOld(ret.memories[10])

(***************************************************************************)
(* analyze_intent on queries without any linguistic temporal pattern, on   *)
(* every collection: the lists of at most MaxLen records, the lists that   *)
(* hold the future-dated record, and the scenario collections.             *)
(***************************************************************************)
NeutralQueries ==
    {q \in {"tell me about quantum computing", "what was that"} :
        LinguisticTemporalAnalysis(q) = 0}

NeutralEmbedders ==
    {e \in Embedders : e.fail \in {0, 1} /\ e.sims[1] \in {-50, 0, 40, 100}}

InitNeutralIntent ==
    /\ pc = "call"
    /\ \E q \in NeutralQueries,
          coll \in Collections \cup FutureCollections \cup ScenarioIntentCollections,
          e \in NeutralEmbedders :
          args = [op |-> "analyze_intent", query |-> q, memory_collection |-> coll,
                  embedder |-> e]
    /\ ret = NoRet
    /\ profile = NoProfile
    /\ embedding = NoEmbedding /\ tabs = NoTabs

SpecNeutralIntent == InitNeutralIntent /\ [][NextIntent]_vars

\* the linguistic and the semantic sub-score of the call are both 0
NeutralQuery ==
    /\ LinguisticTemporalAnalysis(args.query) = 0
    /\ SemanticTemporalDetection(args.query, args.embedder) = 0

\* a record of the collection is dated after the current time
HasFutureRecord(coll) ==
    \E i \in 1..Len(coll) :
        /\ coll[i].mapping
        /\ ParseCreatedAt(coll[i]) # NoTimestamp
        /\ AgeTicks(ParseCreatedAt(coll[i])) < 0

\* C18 as stated: when the linguistic and semantic sub-scores are both 0,
\* analyze_intent returns SEMANTIC_ONLY on every collection: the
\* statistical sub-score alone never brings the confidence to 0.3.
C18_NeutralQueryAnyCollection ==
    (IntentDone /\ NeutralQuery) =>
        /\ ret.intent = "semantic_only"
        /\ ret.num < 3 * (ret.den \div 10)

\* C18: when the linguistic and semantic sub-scores are both 0,
\* analyze_intent returns SEMANTIC_ONLY, with a confidence below 0.3, on the
\* scenario collection and on every other collection that holds no record
\* dated after the current time.
C18_NeutralQuerySemanticOnly ==
    (IntentDone /\ NeutralQuery /\ ~HasFutureRecord(args.memory_collection)) =>
        /\ ret.intent = "semantic_only"
        /\ ret.num < 3 * (ret.den \div 10)

\* "tell me about quantum computing" on the scenario collection, whose
\* statistical sub-score is 0.88
C18_Witness ==
    /\ IntentDone
    /\ args.query = "tell me about quantum computing"
    /\ NeutralQuery
    /\ Len(args.memory_collection) = 10
    /\ EstimateTemporalBenefit(args.query, args.memory_collection).num
           = 88 * (VarDen(10) \div 10)
    /\ ret.intent = "semantic_only"
    /\ ret.num > 0

(***************************************************************************)
(* explain_ranking.  The explanation is the list of its lines; a ranking   *)
(* line keeps the values that are formatted into it.  The "memory" text of *)
(* a record is absent, short, or longer than 50 characters.                *)
(***************************************************************************)
\* the records as the memory client returns them, with their text
WithText(m) ==
    IF ~m.mapping THEN m
    ELSE IF m.id \in {"m1", "m4"} THEN m @@ [memory |-> "visited docs.python.org"]
    ELSE IF m.id \in {"m3", "m5", "m6"}
    THEN m @@ [memory |-> "read the long article about temporal ranking on example.com/" \o m.id]
    ELSE m

WithTexts(coll) == [i \in 1..Len(coll) |-> WithText(coll[i])]

\* memory.get("memory", "")
MemoryText(m) == IF "memory" \in DOMAIN m THEN m.memory ELSE ""

\* content: the first 50 characters and "..." when the text is longer
ContentExcerpt(text) == IF Len(text) > 50 THEN SubSeq(text, 1, 50) \o "..." ELSE text

\* the records a ranking line is written for
TopThree(ranked) == Prefix(ranked, 3)

\* an exception is raised inside the try block: a record among the first
\* three is not a mapping, or lacks temporal_score or
\* original_semantic_score, so that "unknown" meets the format .3f
ExplainRaisesInside(ranked, intent) ==
    /\ intent # "semantic_only"
    /\ \E k \in 1..Len(TopThree(ranked)) :
          \/ ~ranked[k].mapping
          \/ "temporal_score" \notin DOMAIN ranked[k]
          \/ "original_semantic_score" \notin DOMAIN ranked[k]

RankingLine(k, m) ==
    [kind |-> "ranking", rank |-> k,
     text |-> ContentExcerpt(MemoryText(m)),
     has_age |-> "age_hours" \in DOMAIN m,
     age_hours |-> IF "age_hours" \in DOMAIN m THEN m.age_hours ELSE 0,
     temporal |-> m.temporal_score,
     semantic |-> m.original_semantic_score]

ExplainFallback(intent) ==
    <<[kind |-> "fallback", text |-> "Query processed with intent: " \o intent]>>

\* explain_ranking(ranked_memories, intent) with self._profile = stored
ExplainRankingResultMutRaise(ranked, intent, stored) ==
    IF ExplainRaisesInside(ranked, intent) THEN [raised |-> TRUE, lines |-> <<>>]
    ELSE [raised |-> FALSE, lines |-> <<[kind |-> "intent", text |-> "Query Intent: " \o intent]>>]

ExplainRankingResult(ranked, intent, stored) ==
    IF ExplainRaisesInside(ranked, intent)
    THEN [raised |-> FALSE, lines |-> ExplainFallback(intent)]
    ELSE [raised |-> FALSE,
          lines |->
              <<[kind |-> "intent", text |-> "Query Intent: " \o intent]>>
              \o (IF intent # "semantic_only" /\ ranked # <<>>
                  THEN (IF stored # NoProfile
                        THEN <<[kind |-> "profile", text |-> "Temporal Profile: ",
                                recent_x4 |-> stored.recent_x4, old_x4 |-> stored.old_x4]>>
                        ELSE <<>>)
                       \o <<[kind |-> "top", text |-> "Top 3 Rankings:"]>>
                       \o [k \in 1..Len(TopThree(ranked)) |-> RankingLine(k, ranked[k])]
                  ELSE <<>>)]

\* ranked lists: what adaptive_temporal_scoring and
\* get_memories_by_timestamp return, and lists that were not ranked at all
RankedLists ==
    UNION {{WithTexts(c),
            GetMemoriesByTimestampResult(WithTexts(c), MaxLimit, NoFilter),
            AdaptiveTemporalScoringResult(WithTexts(c), "temporal_primary",
                                          Conf(ConfScale \div 2), NoProfile, NoProfile).memories}
           : c \in Collections}

\* self._profile: None, or the profile stored by an earlier call
StoredProfiles ==
    {NoProfile} \cup {BuildProfileResult(c, NoProfile).stored : c \in EarlierCollections}

InitExplain ==
    /\ pc = "call"
    /\ \E ranked \in RankedLists, intent \in Intents :
          args = [op |-> "explain_ranking", ranked_memories |-> ranked, intent |-> intent]
    /\ ret = NoRet
    /\ profile \in StoredProfiles
    /\ embedding = NoEmbedding /\ tabs = NoTabs

ExplainRanking ==
    /\ pc = "call"
    /\ args.op = "explain_ranking"
    /\ ret' = [op |-> args.op] @@
              ExplainRankingResult(args.ranked_memories, args.intent, profile)
    /\ pc' = "done"
    /\ UNCHANGED <<args, profile, embedding, tabs>>

NextExplain == ExplainRanking

SpecExplain == InitExplain /\ [][NextExplain]_vars

ExplainDone == pc = "done" /\ args.op = "explain_ranking"

\* C19: for every intent and every ranked list explain_ranking raises
\* nothing and returns a text that names the intent; when a step inside
\* fails, the text is the single fallback line naming the intent.
C19_ExplainNeverRaises ==
    ExplainDone =>
        /\ ~ret.raised
        /\ Len(ret.lines) >= 1
        /\ Contains(ret.lines[1].text, args.intent)
        /\ (args.intent # "semantic_only"
            /\ \E k \in 1..Min(3, Len(args.ranked_memories)) :
                  \/ ~args.ranked_memories[k].mapping
                  \/ "temporal_score" \notin DOMAIN args.ranked_memories[k])
           => /\ Len(ret.lines) = 1
              /\ StartsWith(ret.lines[1].text, "Query processed with intent: ")

\* a list returned by get_memories_by_timestamp (age_hours but no
\* temporal_score) explained under a temporal intent: the fallback line
C19_Witness ==
    /\ ExplainDone
    /\ args.intent = "temporal_primary"
    /\ Len(args.ranked_memories) >= 2
    /\ "age_hours" \in DOMAIN args.ranked_memories[1]
    /\ "temporal_score" \notin DOMAIN args.ranked_memories[1]
    /\ ret.lines = ExplainFallback(args.intent)

(***************************************************************************)
(* The batch functions side by side: build_temporal_profile,               *)
(* get_memories_by_timestamp and adaptive_temporal_scoring.                *)
(***************************************************************************)
InitBatch == InitProfile \/ InitTimestamp \/ InitScore

NextBatch == NextProfile \/ NextTimestamp \/ NextScore

SpecBatch == InitBatch /\ [][NextBatch]_vars

\* a record with a malformed structure or a malformed timestamp
Offending(m) == ~m.mapping \/ m.created_at.k = "badstr"

\* the collection without its offending records
WithoutOffending(coll) == SelectSeq(coll, LAMBDA m : ~Offending(m))

\* C20: a record with a malformed timestamp or structure never aborts the
\* batch: build_temporal_profile returns the profile of the other records,
\* get_memories_by_timestamp returns what it returns for the other records,
\* and adaptive_temporal_scoring still scores every other record, as if the
\* offending record had been skipped.
C20_OffendingRecordSkipped ==
    /\ ProfileDone =>
           ret.profile = BuildProfileResult(WithoutOffending(args.memory_collection),
                                            NoProfile).profile
    /\ TimestampDone =>
           ret.memories = GetMemoriesByTimestampResult(
                              WithoutOffending(args.memory_collection),
                              args.limit, args.time_filter_hours)
    /\ (ScoreDone /\ args.intent # "semantic_only" /\ args.confidence.ok) =>
           \A k \in 1..Len(ret.memories) :
               ~Offending(ret.memories[k]) =>
                   /\ "temporal_score" \in DOMAIN ret.memories[k]
                   /\ "original_semantic_score" \in DOMAIN ret.memories[k]

\* C21: a scoring call made without an explicit profile scores against the
\* profile computed from the collection passed to that same call, never
\* against a profile computed earlier on the instance from another
\* collection: every timestamped record's fused score is the one obtained
\* with build_temporal_profile(memory_objects).
C21_ProfileOfSameCall ==
    (ScoreDone /\ args.profile = NoProfile /\ args.intent # "semantic_only"
        /\ ~ScoringRaisesInside(args.memory_objects, args.confidence)) =>
        \A k \in 1..Len(ret.memories) :
            ParseCreatedAt(ret.memories[k]) # NoTimestamp =>
                ret.memories[k].temporal_score
                    = FinalScore(ret.memories[k], args.intent, args.confidence.v,
                                 BuildProfileResult(args.memory_objects, NoProfile).profile)

\* ---------------------------------------------------------------------
\* Intent analyses of one process: every analysis runs on a fresh
\* TemporalIntelligence (main.py), so self._query_embeddings_cache is empty
\* when it starts and the module-level cache of utils.py is the only one
\* that lasts.

\* the number of analyses the process runs after its initial state
MaxAnalyses == 2

\* the text of the n-th distinct query
QueryText(n) == "query " \o ToString(n)

\* the module state after the analyses of queries 1..n, every request
\* answered: query 1 and the six patterns are embedded by the first
\* analysis, each later analysis embeds its query and hits the six patterns
AnalysedEmbedding(n) ==
    IF n = 0 THEN NoEmbedding
    ELSE LET text(k) == IF k = 1 THEN QueryText(1)
                        ELSE IF k <= 1 + Len(TemporalPatterns) THEN TemporalPatterns[k - 1]
                        ELSE QueryText(k - Len(TemporalPatterns))
             size == n + Len(TemporalPatterns)
         IN  [cache    |-> [k \in 1..size |-> GetCacheKey(text(k))],
              hits     |-> Len(TemporalPatterns) * (n - 1),
              misses   |-> size,
              upstream |-> [k \in 1..size |-> [text |-> text(k), ok |-> TRUE]]]

\* a new process, a process after one analysis, and processes whose cache
\* is one or no entry below the limit
AnalysedEmbeddings ==
    {AnalysedEmbedding(n) : n \in {0, 1, CacheLimit - Len(TemporalPatterns) - 1,
                                   CacheLimit - Len(TemporalPatterns)}}

InitEmbedding ==
    /\ pc = "idle"
    /\ args = [op |-> "_semantic_temporal_detection", query |-> "", pending |-> <<>>,
               analyses |-> 0]
    /\ ret = NoRet
    /\ profile = NoProfile
    /\ embedding \in AnalysedEmbeddings
    /\ tabs = NoTabs

\* an analysis starts for the oldest query, a query never seen, or a query
\* that is one of the patterns
SemanticTemporalDetectionStart ==
    /\ pc = "idle"
    /\ args.analyses < MaxAnalyses
    /\ \E query \in {QueryText(1), QueryText(embedding.misses + 1), TemporalPatterns[1]} :
          args' = [op |-> "_semantic_temporal_detection", query |-> query,
                   pending |-> EmbeddedTexts(query), analyses |-> args.analyses + 1]
    /\ pc' = "embedding"
    /\ UNCHANGED <<ret, profile, embedding, tabs>>

\* the analysis under way calls create_embedding for its next text
CreateEmbedding ==
    /\ pc = "embedding"
    /\ \E ok \in BOOLEAN :
          LET r == CreateEmbeddingResult(embedding, Head(args.pending), ok)
              pending == IF r.raised THEN <<>> ELSE Tail(args.pending)
          IN  /\ embedding' = r.embedding
              /\ ret' = [op |-> "create_embedding", text |-> Head(args.pending),
                         raised |-> r.raised, hit |-> r.hit]
              /\ args' = [args EXCEPT !.pending = pending]
              /\ pc' = IF pending = <<>> THEN "idle" ELSE "embedding"
    /\ UNCHANGED <<profile, tabs>>

NextEmbedding == SemanticTemporalDetectionStart \/ CreateEmbedding

SpecEmbedding == InitEmbedding /\ [][NextEmbedding]_vars

\* the embedding service has answered a request for text
EmbeddedBefore(emb, text) ==
    \E k \in 1..Len(emb.upstream) : emb.upstream[k] = [text |-> text, ok |-> TRUE]

\* C22 as stated: once a text has been embedded successfully, every later
\* request for it is served from the cache, the embedding service is not
\* called again, for the lifetime of the process.
C22_ServedFromCacheForever ==
    [][(pc = "embedding" /\ EmbeddedBefore(embedding, Head(args.pending)))
          => (embedding'.upstream = embedding.upstream /\ ret'.hit)]_vars

\* C22: a request for a text whose entry is in the cache is served from the
\* cache without a call of the embedding service, and a text embedded
\* successfully is in the cache when its call returns; no entry leaves the
\* cache while it holds fewer than CacheLimit entries.
C22_ServedFromCacheWhileCached ==
    [][pc = "embedding" =>
          LET cache_key == GetCacheKey(Head(args.pending))
          IN  /\ InCache(embedding.cache, cache_key) =>
                    (embedding'.upstream = embedding.upstream /\ ret'.hit /\ ~ret'.raised)
              /\ ~ret'.raised => InCache(embedding'.cache, cache_key)
              /\ Len(embedding.cache) < CacheLimit =>
                    SubSeq(embedding'.cache, 1, Len(embedding.cache)) = embedding.cache]_vars

\* a pattern embedded by an earlier analysis is served from the cache
C22_Witness ==
    /\ pc = "embedding"
    /\ ret # NoRet /\ ret.op = "create_embedding" /\ ret.hit
    /\ ret.text = TemporalPatterns[2]
    /\ EmbeddedBefore(embedding, ret.text)
    /\ args.analyses = 2

\* ---------------------------------------------------------------------
\* save_tab_memory, its background task and delete_tab_memory.  None of the
\* coroutines involved suspends (every client call in them is synchronous),
\* so each tool call and each background task runs as one step of the event
\* loop; a task created by asyncio.create_task runs at a later step, and
\* other tool calls may run before it.

\* the number of memory ids
MaxMemories == 2

\* the largest number of chunks smart_chunk_content cuts a content into
MaxChunks == 2

MemoryIds == {"mem-" \o ToString(n) : n \in 1..MaxMemories}

\* the text create_embedding is called with for chunk k of a memory
ChunkEmbeddingText(memory_id, k) ==
    "Content type: article\n\nchunk " \o ToString(k) \o " of " \o memory_id

\* the loop of add_content_chunks_to_chroma from chunk k on: a chunk whose
\* embedding fails is skipped; ids are the chunk numbers kept for the insert
RECURSIVE EmbedChunks(_, _, _, _, _)
EmbedChunks(emb, memory_id, k, n, failed) ==
    IF k > n THEN [embedding |-> emb, ids |-> {}]
    ELSE LET r == CreateEmbeddingResult(emb, ChunkEmbeddingText(memory_id, k), k \notin failed)
             rest == EmbedChunks(r.embedding, memory_id, k + 1, n, failed)
         IN  [embedding |-> rest.embedding,
              ids |-> IF r.raised THEN rest.ids ELSE {k} \cup rest.ids]

InitTabs ==
    /\ pc = "serving"
    /\ args = [op |-> "none"]
    /\ ret = NoRet
    /\ profile = NoProfile
    /\ embedding = NoEmbedding
    /\ tabs = NoTabs

\* save_tab_memory: add_browser_memory returns a new memory id and the
\* background task is created, or it raises and the error message is returned
SaveTabMemory ==
    /\ pc = "serving"
    /\ \E memory_id \in MemoryIds \ tabs.saved, n \in 0..MaxChunks, mem0_ok \in BOOLEAN :
          /\ args' = [op |-> "save_tab_memory", content_chunks |-> n]
          /\ IF mem0_ok
             THEN /\ tabs' = [tabs EXCEPT !.mem0 = @ \cup {memory_id},
                                          !.saved = @ \cup {memory_id},
                                          !.background =
                                              Append(@, [memory_id |-> memory_id, chunks |-> n])]
                  /\ ret' = [op |-> "save_tab_memory", raised |-> FALSE,
                             message |-> "Saved memory"]
             ELSE /\ tabs' = tabs
                  /\ ret' = [op |-> "save_tab_memory", raised |-> FALSE,
                             message |-> "Error saving memory"]
    /\ UNCHANGED <<pc, profile, embedding>>

\* _process_tab_memory_background: the oldest task created runs: the
\* synopsis update (a failure is logged), then the chunks are embedded and
\* inserted in one batch (a failure of the insert is logged)
ProcessTabMemoryBackground ==
    /\ pc = "serving"
    /\ tabs.background # <<>>
    /\ LET task == Head(tabs.background)
       IN  \E synopsis_ok \in BOOLEAN, chroma_ok \in BOOLEAN,
              failed \in SUBSET (1..task.chunks) :
              LET r == EmbedChunks(embedding, task.memory_id, 1, task.chunks, failed)
              IN  /\ embedding' = r.embedding
                  /\ tabs' = [tabs EXCEPT
                        !.synopses = IF synopsis_ok THEN @ \cup {task.memory_id} ELSE @,
                        !.chunks = IF r.ids # {} /\ chroma_ok
                                   THEN @ \cup {<<task.memory_id, k>> : k \in r.ids}
                                   ELSE @,
                        !.background = Tail(@)]
    /\ UNCHANGED <<pc, args, ret, profile>>

\* delete_tab_memory(memory_id).  mem0_ok: delete_memory returns True;
\* chroma: the content store answers ("ok"), its get or delete raises
\* ("query fails": logged, chunk_count = 0), or the collection cannot be
\* opened ("no collection": the outer handler returns the error message)
DeleteTabMemory ==
    /\ pc = "serving"
    /\ \E memory_id \in MemoryIds, mem0_ok \in BOOLEAN,
          chroma \in {"ok", "query fails", "no collection"} :
          LET found == {c \in tabs.chunks : c[1] = memory_id}
              chunk_count == IF chroma = "ok" THEN Cardinality(found) ELSE 0
              success == mem0_ok /\ chroma # "no collection"
          IN  /\ args' = [op |-> "delete_tab_memory", memory_id |-> memory_id]
              /\ tabs' = [tabs EXCEPT
                    !.mem0 = IF mem0_ok THEN @ \ {memory_id} ELSE @,
                    !.chunks = IF chroma = "ok" THEN @ \ found ELSE @,
                    !.deleted = IF success THEN @ \cup {memory_id} ELSE @]
              /\ ret' = [op |-> "delete_tab_memory", raised |-> FALSE,
                         memory_id |-> memory_id, chunk_count |-> chunk_count,
                         message |-> IF chroma = "no collection" THEN "Error deleting memory"
                                     ELSE IF mem0_ok THEN "Successfully deleted memory"
                                     ELSE "Failed to delete memory"]
    /\ UNCHANGED <<pc, profile, embedding>>

NextTabs == SaveTabMemory \/ ProcessTabMemoryBackground \/ DeleteTabMemory

SpecTabs == InitTabs /\ [][NextTabs]_vars

\* C23: once delete_tab_memory has returned its success message for a
\* memory id, the content store holds no chunk with that memory_id, then or
\* at any later time, in every interleaving with the background task of
\* save_tab_memory for the same memory.
C23_NoChunksAfterDelete ==
    \A memory_id \in tabs.deleted : \A c \in tabs.chunks : c[1] # memory_id

\* ---------------------------------------------------------------------
\* explain_ranking as _unified_search_core calls it: on the final_memories
\* of the strategy executed, with the intent of the analysis and the
\* profile the strategy left on the TemporalIntelligence of the search.
InitExplainCore ==
    /\ pc = "call"
    /\ \E objs \in SearchResults, all \in AllMemoryLists, limit \in 1..MaxLimit,
          c \in SearchConfidences :
          LET intent == IntentOf(c.v, ConfScale)
              r == UnifiedSearchResult(WithTexts(objs), WithTexts(all), limit, intent, c)
          IN  /\ args = [op |-> "explain_ranking", ranked_memories |-> r.final_memories,
                         intent |-> intent, strategy |-> r.strategy]
              /\ profile = r.stored
    /\ ret = NoRet
    /\ embedding = NoEmbedding /\ tabs = NoTabs

SpecExplainCore == InitExplainCore /\ [][NextExplain]_vars

\* the lines of an explanation written for ranked entries
RankingLines(lines) == SelectSeq(lines, LAMBDA l : l.kind = "ranking")

\* C24: for every intent other than SEMANTIC_ONLY and every non-empty list
\* ranked by timestamp_direct or semantic_temporal_hybrid, the explanation
\* lists the top min(3, n) entries, each with its age, temporal score,
\* semantic score and its content excerpt (the first 50 characters and an
\* ellipsis when the content is longer, the full content otherwise).
C24_TopEntriesListed ==
    (ExplainDone /\ "strategy" \in DOMAIN args
        /\ args.strategy \in {"timestamp_direct", "semantic_temporal_hybrid"}
        /\ args.intent # "semantic_only" /\ args.ranked_memories # <<>>) =>
        LET ranked == args.ranked_memories
            n == Min(3, Len(ranked))
            listed == RankingLines(ret.lines)
        IN  /\ Len(listed) = n
            /\ \A k \in 1..n :
                  /\ listed[k].rank = k
                  /\ listed[k].has_age = ("age_hours" \in DOMAIN ranked[k])
                  /\ listed[k].has_age => listed[k].age_hours = ranked[k].age_hours
                  /\ listed[k].temporal = ranked[k].temporal_score
                  /\ listed[k].semantic = ranked[k].original_semantic_score
                  /\ listed[k].text =
                        (IF Len(MemoryText(ranked[k])) > 50
                         THEN SubSeq(MemoryText(ranked[k]), 1, 50) \o "..."
                         ELSE MemoryText(ranked[k]))

\* ---------------------------------------------------------------------
\* The fresh memory boost on stores of up to twelve records.

\* the k-th record memory_client.get_all returns
StoreRecord(k) ==
    Rec("r" \o ToString(k), TRUE, IF k % 2 = 0 THEN "iso" ELSE "num",
        CurrentTime - k * TicksPerHour, TRUE, 1000 * ((k % 9) + 1))

\* complete collections of 0, 2, 10, 11 and 12 records, and one whose second
\* record is not a mapping
CompleteCollections ==
    {[k \in 1..n |-> StoreRecord(k)] : n \in {0, 2, 10, 11, 12}}
        \cup {<<StoreRecord(1), Rec("g8", FALSE, "absent", 0, FALSE, 0), StoreRecord(3)>>}

\* semantic results: up to two records of the store, in any order
SemanticResults ==
    LET found == {StoreRecord(k) : k \in {1, 2, 11, 12}}
    IN  {<<>>} \cup {<<m>> : m \in found}
            \cup {p \in found \X found : p[1] # p[2]}

InitFreshBoost ==
    /\ pc = "call"
    /\ \E objs \in SemanticResults, all \in CompleteCollections, limit \in 0..MaxLimit,
          c \in SearchConfidences :
          args = [op |-> "_unified_search_core", memory_objects |-> objs,
                  all_memories |-> all, limit |-> limit,
                  intent |-> IntentOf(c.v, ConfScale), confidence |-> c]
    /\ ret = NoRet
    /\ profile = NoProfile
    /\ embedding = NoEmbedding /\ tabs = NoTabs

SpecFreshBoost == InitFreshBoost /\ [][NextSearch]_vars

\* the hybrid strategy ran with use_fresh_memory_boost
BoostDone ==
    /\ SearchDone
    /\ ret.strategy = "semantic_temporal_hybrid"
    /\ RouteQueryResult("", args.memory_objects, args.intent,
                        args.confidence).params.use_fresh_memory_boost

IdsOf(coll) == {coll[i].id : i \in 1..Len(coll)}

NoIdTwice(coll) == \A i, j \in 1..Len(coll) : i # j => coll[i].id # coll[j].id

NormalizeRecords ==
    { Rec("n1", TRUE, "iso",    CurrentTime - 8,  TRUE, 5000),
      Rec("n2", TRUE, "num",    CurrentTime - 20, TRUE, 5000),
      Rec("n3", TRUE, "num",    0,                TRUE, 5000),
      Rec("n4", TRUE, "badstr", 0,                TRUE, 5000),
      Rec("n5", TRUE, "absent", 0,                TRUE, 5000),
      Rec("n6", TRUE, "huge",   0,                TRUE, 5000) }

NormalizeCollections ==
    {<<m>> : m \in NormalizeRecords}
        \cup {p \in NormalizeRecords \X NormalizeRecords : p[1] # p[2]}

InitNormalize ==
    /\ pc = "call"
    /\ \E coll \in NormalizeCollections :
          \/ args = [op |-> "build_temporal_profile", memory_collection |-> coll]
          \/ args = [op |-> "_estimate_temporal_benefit", query |-> "", memory_collection |-> coll]
          \/ \E intent \in Intents \ {"semantic_only"}, c \in ScoreConfidences :
                args = [op |-> "adaptive_temporal_scoring", memory_objects |-> coll,
                        intent |-> intent, confidence |-> c, profile |-> NoProfile]
          \/ \E H \in {NoFilter, 300} :
                args = [op |-> "get_memories_by_timestamp", memory_collection |-> coll,
                        limit |-> Len(coll), time_filter_hours |-> H]
    /\ ret = NoRet
    /\ profile = NoProfile
    /\ embedding = NoEmbedding /\ tabs = NoTabs

\* _estimate_temporal_benefit: the ages it collected and the value returned
EstimateTemporalBenefitCall ==
    /\ pc = "call"
    /\ args.op = "_estimate_temporal_benefit"
    /\ ret' = [op |-> args.op, raised |-> FALSE,
               ages |-> IF RaisesOnGet(args.memory_collection) THEN <<>>
                        ELSE CollectAges(args.memory_collection),
               benefit |-> EstimateTemporalBenefit(args.query, args.memory_collection)]
    /\ pc' = "done"
    /\ UNCHANGED <<args, profile, embedding, tabs>>

NextNormalize ==
    \/ BuildTemporalProfile
    \/ EstimateTemporalBenefitCall
    \/ AdaptiveTemporalScoring
    \/ GetMemoriesByTimestamp

SpecNormalize == InitNormalize /\ [][NextNormalize]_vars

\* created_at parses as an ISO-8601 string or, failing that, as a numeric
\* epoch
Normalizable(memory) == memory.created_at.k \in {"iso", "num"}

\* the collection a call was given
CollectionOf(a) ==
    IF a.op = "adaptive_temporal_scoring" THEN a.memory_objects ELSE a.memory_collection

\* the number of records the call that returned treated as timestamped
TimestampedCount ==
    CASE args.op = "build_temporal_profile" -> ret.profile.total
      [] args.op = "_estimate_temporal_benefit" -> Len(ret.ages)
      [] args.op = "adaptive_temporal_scoring" ->
            CountIf(ret.memories, LAMBDA m : "age_hours" \in DOMAIN m)
      [] args.op = "get_memories_by_timestamp" -> Len(ret.memories)

\* C26: a record is treated as having no timestamp only when created_at
\* parses neither as an ISO-8601 string nor as a numeric epoch, and the
\* profiler, the statistical estimator, the Scorer and timestamp retrieval
\* treat the same records of a collection as timestamped.
C26_SameTimestampsEverywhere ==
    (pc = "done" /\ args.op \in {"build_temporal_profile", "_estimate_temporal_benefit",
                                 "adaptive_temporal_scoring", "get_memories_by_timestamp"}) =>
        TimestampedCount = CountIf(CollectionOf(args), Normalizable)

\* ---------------------------------------------------------------------
\* C27: adaptive_temporal_scoring and get_memories_by_timestamp never modify
\* their input: after any call the input list holds the same records in the
\* same order and no input record has gained or changed a field.
C27_InputUnmodified ==
    (ScoreDone => ret.input = args.memory_objects)
        /\ (TimestampDone => ret.input = args.memory_collection)

\* the Scorer has written its three fields to the copies of two timestamped
\* records and retrieval has returned a copy with age_hours
C27_Witness ==
    \/ /\ ScoreDone
       /\ Len(args.memory_objects) >= 2
       /\ \A k \in 1..Len(ret.memories) :
             /\ "temporal_score" \in DOMAIN ret.memories[k]
             /\ "age_hours" \in DOMAIN ret.memories[k]
       /\ \A k \in 1..Len(ret.input) : "temporal_score" \notin DOMAIN ret.input[k]
    \/ /\ TimestampDone
       /\ Len(ret.memories) >= 2
       /\ "age_hours" \in DOMAIN ret.memories[1]
       /\ \A k \in 1..Len(ret.input) : "age_hours" \notin DOMAIN ret.input[k]

\* ---------------------------------------------------------------------
\* Searches over memories whose texts name URLs of two domains, or none.
PageTexts ==
    [p1 |-> "Visited: Python docs\nURL: https://docs.python.org/3/\nSummary: reference",
     p2 |-> "a note without any link",
     p3 |-> "Visited: Example\nURL: https://www.Example.com/a\nSummary: sample",
     p4 |-> "read http://example.com/b again",
     p5 |-> "the http protocol, no address"]

PageRecords ==
    { Rec("p1", TRUE, "iso", CurrentTime - 2,   TRUE, 9000) @@ [memory |-> PageTexts.p1],
      Rec("p2", TRUE, "num", CurrentTime - 30,  TRUE, 7000) @@ [memory |-> PageTexts.p2],
      Rec("p3", TRUE, "iso", CurrentTime - 90,  TRUE, 5000) @@ [memory |-> PageTexts.p3],
      Rec("p4", TRUE, "iso", CurrentTime - 400, TRUE, 3000) @@ [memory |-> PageTexts.p4],
      Rec("p5", TRUE, "num", CurrentTime - 900, TRUE, 1000) @@ [memory |-> PageTexts.p5] }

\* lists of up to three distinct page records, in any order
PageLists ==
    {<<>>} \cup {<<m>> : m \in PageRecords}
        \cup {p \in PageRecords \X PageRecords : p[1] # p[2]}
        \cup {p \in PageRecords \X PageRecords \X PageRecords :
                 p[1] # p[2] /\ p[1] # p[3] /\ p[2] # p[3]}

InitPayload ==
    /\ pc = "call"
    /\ \E objs \in PageLists, limit \in 0..MaxLimit, c \in SearchConfidences :
          args = [op |-> "_unified_search_core", memory_objects |-> objs,
                  all_memories |-> objs, limit |-> limit,
                  intent |-> IntentOf(c.v, ConfScale), confidence |-> c]
    /\ ret = NoRet
    /\ profile = NoProfile
    /\ embedding = NoEmbedding /\ tabs = NoTabs

SpecPayload == InitPayload /\ [][NextSearch]_vars

\* C28: for every strategy, if memory A precedes memory B in the ranked
\* list chosen by the strategy, then A precedes B in the results of the
\* payload, whatever URLs or domains the memories contain.
C28_ResultsInRankedOrder ==
    (SearchDone /\ ~ret.error) =>
        /\ Len(ret.results) = Len(ret.final_memories)
        /\ \A k \in 1..Len(ret.final_memories) : ret.results[k].id = ret.final_memories[k].id

\* ---------------------------------------------------------------------
\* C29: in unified search the strategy executed is a function of the
\* combined confidence c alone: timestamp_direct exactly when c > 0.8,
\* semantic_temporal_hybrid exactly when 0.3 <= c <= 0.8, with the fresh
\* memory boost exactly when 0.7 <= c <= 0.8, and semantic_only exactly when
\* c < 0.3; the hybrid strategy never runs with the intent semantic_only.
C29_StrategyByConfidence ==
    SearchDone =>
        LET c == 10 * args.confidence.v
        IN  /\ (ret.strategy = "timestamp_direct") = (c > 8 * ConfScale)
            /\ (ret.strategy = "semantic_temporal_hybrid")
                   = (3 * ConfScale <= c /\ c <= 8 * ConfScale)
            /\ (ret.strategy = "semantic_only") = (c < 3 * ConfScale)
            /\ ret.memory_objects =
                   (IF 7 * ConfScale <= c /\ c <= 8 * ConfScale
                    THEN FreshBoost(args.memory_objects, args.all_memories)
                    ELSE args.memory_objects)
            /\ ret.strategy = "semantic_temporal_hybrid" => args.intent # "semantic_only"

\* at c = 0.7 the hybrid strategy runs under temporal_primary and the boost
\* has merged a record of the complete collection
C29_Witness ==
    /\ SearchDone
    /\ 10 * args.confidence.v = 7 * ConfScale
    /\ ret.strategy = "semantic_temporal_hybrid"
    /\ args.intent = "temporal_primary"
    /\ Len(ret.memory_objects) > Len(args.memory_objects)

\* ---------------------------------------------------------------------
\* C30: whenever a call of create_embedding has returned the cache holds at
\* most CacheLimit entries; an insertion that brings it to CacheLimit + 1
\* entries removes the EvictCount oldest-inserted ones and keeps the entry
\* just inserted; every call increments exactly one of the hit and miss
\* counters.
C30_CacheBoundedAndCounted ==
    [][pc = "embedding" =>
          LET cache_key == GetCacheKey(Head(args.pending))
              inserted == ~ret'.hit /\ ~ret'.raised
          IN  /\ Len(embedding.cache) <= CacheLimit
              /\ Len(embedding'.cache) <= CacheLimit
              /\ (inserted /\ Len(embedding.cache) = CacheLimit) =>
                    /\ Len(embedding'.cache) = CacheLimit + 1 - EvictCount
                    /\ embedding'.cache
                           = SubSeq(embedding.cache, EvictCount + 1, CacheLimit)
                                 \o <<cache_key>>
              /\ (inserted /\ Len(embedding.cache) < CacheLimit) =>
                    embedding'.cache = Append(embedding.cache, cache_key)
              /\ ~inserted => embedding'.cache = embedding.cache
              /\ \/ /\ embedding'.hits = embedding.hits + 1
                    /\ embedding'.misses = embedding.misses
                 \/ /\ embedding'.hits = embedding.hits
                    /\ embedding'.misses = embedding.misses + 1]_vars

\* the insertion of a new query into a cache of CacheLimit entries has
\* returned: the oldest entries are gone and the new entry is the last one
C30_Witness ==
    /\ ret # NoRet /\ ret.op = "create_embedding" /\ ~ret.hit /\ ~ret.raised
    /\ Len(embedding.cache) = CacheLimit + 1 - EvictCount
    /\ embedding.cache[Len(embedding.cache)] = GetCacheKey(ret.text)
    /\ embedding.misses = CacheLimit + 1
    /\ ~InCache(embedding.cache, GetCacheKey(TemporalPatterns[1]))
====
